---- MODULE Spec2Model ----
(***************************************************************************)
(* Warehouse-AI-System: the recovery of the four robot task strings from   *)
(* an LLM response (GeminiProvider.generateTasks, src/lib/llm-providers.ts)*)
(* its request retry loop, and the extraction of a coordinate path from a  *)
(* task string (extractPath, src/app/api/test-scenarios/route.ts).         *)
(*                                                                         *)
(* Texts are TLA+ strings.  Positions inside the helper operators are      *)
(* 1-based; the scan variable i of the quote state machine keeps the       *)
(* 0-based value it has in the source.                                     *)
(***************************************************************************)
EXTENDS Integers, Sequences, FiniteSets, TLC

(***************************************************************************)
(* Characters and character classes of the regular expressions.            *)
(***************************************************************************)
DQ == "\""
BS == "\\"
NL == "\n"
CR == "\r"
TAB == "\t"

Lower == {"a","b","c","d","e","f","g","h","i","j","k","l","m",
          "n","o","p","q","r","s","t","u","v","w","x","y","z"}
Upper == {"A","B","C","D","E","F","G","H","I","J","K","L","M",
          "N","O","P","Q","R","S","T","U","V","W","X","Y","Z"}
Digits == {"0","1","2","3","4","5","6","7","8","9"}

\* \s
Whitespace == {" ", NL, CR, TAB, "\f"}
\* [\n\r]
LineBreaks == {NL, CR}
\* [\n\r\t]
ControlChars == {NL, CR, TAB}
\* \w
WordChars == Lower \cup Upper \cup Digits \cup {"_"}
\* ['"]
AnyQuote == {"'", DQ}
\* [R1-R4] as the regular expression reads it: the letter R, the range from
\* the character 1 to the character R, and the digit 4.
KeyClass == {"1","2","3","4","5","6","7","8","9",":",";","<","=",">","?","@",
             "A","B","C","D","E","F","G","H","I","J","K","L","M","N","O","P",
             "Q","R"}
\* [a-zA-Z0-9\[\]()]
ContentClass == Lower \cup Upper \cup Digits \cup {"[", "]", "(", ")"}

LowerOf(c) ==
  CASE c = "A" -> "a" [] c = "B" -> "b" [] c = "C" -> "c" [] c = "D" -> "d"
    [] c = "E" -> "e" [] c = "F" -> "f" [] c = "G" -> "g" [] c = "H" -> "h"
    [] c = "I" -> "i" [] c = "J" -> "j" [] c = "K" -> "k" [] c = "L" -> "l"
    [] c = "M" -> "m" [] c = "N" -> "n" [] c = "O" -> "o" [] c = "P" -> "p"
    [] c = "Q" -> "q" [] c = "R" -> "r" [] c = "S" -> "s" [] c = "T" -> "t"
    [] c = "U" -> "u" [] c = "V" -> "v" [] c = "W" -> "w" [] c = "X" -> "x"
    [] c = "Y" -> "y" [] c = "Z" -> "z" [] OTHER -> c

(***************************************************************************)
(* String primitives (String.prototype of the source language).            *)
(***************************************************************************)
\* the least element of a non-empty set of numbers
MinOf(S) == CHOOSE x \in S : \A y \in S : x <= y
\* the greatest element of a non-empty set of numbers
MaxOf(S) == CHOOSE x \in S : \A y \in S : x >= y

\* s[k-1]; the empty string outside the text
At(s, k) == IF k >= 1 /\ k <= Len(s) THEN SubSeq(s, k, k) ELSE ""

\* s.substring(a-1, b), the positions clamped to the text
Sub(s, a, b) ==
  IF a > b \/ a > Len(s) \/ b < 1 THEN ""
  ELSE SubSeq(s, IF a < 1 THEN 1 ELSE a, IF b > Len(s) THEN Len(s) ELSE b)

\* s.startsWith(t, k-1)
StartsAt(s, k, t) ==
  k >= 1 /\ k + Len(t) - 1 <= Len(s) /\ SubSeq(s, k, k + Len(t) - 1) = t

\* the first position >= k whose character is in set S (Len(s)+1 if none)
FindSet(s, k, S) ==
  LET M == {j \in k..Len(s) : At(s, j) \in S}
  IN IF M = {} THEN Len(s) + 1 ELSE MinOf(M)

\* the first position >= k whose character is not in set S
SkipSet(s, k, S) ==
  LET M == {j \in k..Len(s) : At(s, j) \notin S}
  IN IF M = {} THEN (IF k > Len(s) THEN k ELSE Len(s) + 1) ELSE MinOf(M)

\* the first position >= k that holds no white space (Len(s)+1 at the end)
SkipWs(s, k) == SkipSet(s, k, Whitespace)

\* the last position <= k that holds no white space (0 at the start)
SkipWsBack(s, k) ==
  LET M == {j \in 1..k : At(s, j) \notin Whitespace}
  IN IF M = {} THEN (IF k < 1 THEN k ELSE 0) ELSE MaxOf(M)

\* a line break among positions a..b
HasLineBreak(s, a, b) == \E k \in a..b : At(s, k) \in LineBreaks

\* s.indexOf(t, k-1) + 1; 0 if t does not occur at or after position k
IndexOf(s, t, k) ==
  LET M == {j \in k..(Len(s) - Len(t) + 1) : StartsAt(s, j, t)}
  IN IF M = {} THEN 0 ELSE MinOf(M)

\* s.lastIndexOf(t) + 1; 0 if t does not occur
LastIndexOf(s, t) ==
  LET M == {j \in 1..(Len(s) - Len(t) + 1) : StartsAt(s, j, t)}
  IN IF M = {} THEN 0 ELSE MaxOf(M)

\* s.includes(t)
Includes(s, t) == IndexOf(s, t, 1) > 0

RECURSIVE ToLowerCase(_)
\* s.toLowerCase(), by halves
ToLowerCase(s) ==
  IF Len(s) = 0 THEN ""
  ELSE IF Len(s) = 1 THEN LowerOf(s)
  ELSE ToLowerCase(SubSeq(s, 1, Len(s) \div 2))
         \o ToLowerCase(SubSeq(s, Len(s) \div 2 + 1, Len(s)))

\* s.trim()
Trim(s) == Sub(s, SkipWs(s, 1), SkipWsBack(s, Len(s)))

\* (s.match(/c/g) || []).length
CountOf(s, c) == Cardinality({j \in 1..Len(s) : At(s, j) = c})

RECURSIVE Repeat(_, _)
\* c.repeat(n)
Repeat(c, n) == IF n <= 0 THEN "" ELSE c \o Repeat(c, n - 1)

(***************************************************************************)
(* The regular expressions of generateTasks.  For each, XAt(s, k) is the   *)
(* match that starts at position k: ok, next the position behind it and    *)
(* rep the text that replaces it.                                          *)
(***************************************************************************)
NoMatchAt == [ok |-> FALSE, next |-> 0, rep |-> ""]
MatchAt(next, rep) == [ok |-> TRUE, next |-> next, rep |-> rep]

\* The fence character of a markdown code block.  A TLA+ string literal cannot
\* hold the grave accent (the lexer pairs it with a later apostrophe), so the
\* model writes the tilde for it; neither character belongs to any character
\* class of the regular expressions below.
FenceChar == "~"
Fence == FenceChar \o FenceChar \o FenceChar

\* /FENCEjson\n?|\n?FENCE/ replaced by ""
FenceAt(s, k) ==
  IF StartsAt(s, k, Fence \o "json")
    THEN MatchAt(IF At(s, k + 7) = NL THEN k + 8 ELSE k + 7, "")
  ELSE IF StartsAt(s, k, NL \o Fence) THEN MatchAt(k + 4, "")
  ELSE IF StartsAt(s, k, Fence) THEN MatchAt(k + 3, "")
  ELSE NoMatchAt

\* /(["}])\s*,\s*[\n\r]+\s*['"]\s*\+\s*['"]/ replaced by '$1, "'
JoinConcatAt(s, k) ==
  LET c == SkipWs(s, k + 1)
      q == SkipWs(s, c + 1)
      p == SkipWs(s, q + 1)
      r == SkipWs(s, p + 1)
  IN IF /\ At(s, k) \in {DQ, "}"}
        /\ At(s, c) = ","
        /\ HasLineBreak(s, c + 1, q - 1)
        /\ At(s, q) \in AnyQuote
        /\ At(s, p) = "+"
        /\ At(s, r) \in AnyQuote
     THEN MatchAt(r + 1, At(s, k) \o ", \"")
     ELSE NoMatchAt

\* /\s*\+\s*['"]/ replaced by ''
RemovePlusAt(s, k) ==
  LET p == SkipWs(s, k)
      q == SkipWs(s, p + 1)
  IN IF At(s, k) \in Whitespace \cup {"+"} /\ At(s, p) = "+" /\ At(s, q) \in AnyQuote
       THEN MatchAt(q + 1, "")
       ELSE NoMatchAt

EscapeOf(c) == IF c = NL THEN "\\n" ELSE IF c = CR THEN "\\r"
               ELSE IF c = TAB THEN "\\t" ELSE c

\* /(:\s*")([^"]*?)([\n\r\t])/ replaced by prefix + before + escaped
EscapeControlAt(s, k) ==
  LET q == SkipWs(s, k + 1)
      e == FindSet(s, q + 1, ControlChars \cup {DQ})
  IN IF At(s, k) = ":" /\ At(s, q) = DQ /\ At(s, e) \in ControlChars
       THEN MatchAt(e + 1, Sub(s, k, e - 1) \o EscapeOf(At(s, e)))
       ELSE NoMatchAt

\* /(["}])\s*[\n\r]+\s*X/ replaced by '$1' + rep, for X a quote or a brace
JoinLinesAt(s, k, x, rep) ==
  LET q == SkipWs(s, k + 1)
  IN IF /\ At(s, k) \in {DQ, "}"}
        /\ HasLineBreak(s, k + 1, q - 1)
        /\ At(s, q) = x
     THEN MatchAt(q + 1, At(s, k) \o rep)
     ELSE NoMatchAt

\* /,\s*X/ replaced by 'X', for X a closing brace or bracket
TrailingCommaAt(s, k, x) ==
  LET q == SkipWs(s, k + 1)
  IN IF At(s, k) = "," /\ At(s, q) = x THEN MatchAt(q + 1, x) ELSE NoMatchAt

\* /([{,]\s*)(\w+)(\s*):/ replaced by '$1"$2":'
QuoteKeysAt(s, k) ==
  LET w == SkipWs(s, k + 1)
      e == SkipSet(s, w, WordChars)
      c == SkipWs(s, e)
  IN IF At(s, k) \in {"{", ","} /\ e > w /\ At(s, c) = ":"
       THEN MatchAt(c + 1, Sub(s, k, w - 1) \o DQ \o Sub(s, w, e - 1) \o "\":")
       ELSE NoMatchAt

\* the lazy [^,}\]]*? followed by (\s*[,}]): the first position p >= k at
\* which white space and then a comma or brace follow; 0 when a closing
\* bracket or the end of the text comes first
ScalarEnd(s, k) ==
  LET P == {p \in k..Len(s) : At(s, SkipWs(s, p)) \in {",", "}"}}
  IN IF P # {} /\ MinOf(P) <= FindSet(s, k, {"]"}) THEN MinOf(P) ELSE 0

\* /:\s*([^",{\[\]\s][^,}\]]*?)(\s*[,}])/ replaced by ': "$1"$2'
QuoteValuesAt(s, k) ==
  LET v == SkipWs(s, k + 1)
      e == ScalarEnd(s, v + 1)
      t == SkipWs(s, e)
  IN IF /\ At(s, k) = ":"
        /\ v <= Len(s)
        /\ At(s, v) \notin {DQ, ",", "{", "[", "]"}
        /\ e > 0
     THEN MatchAt(t + 1, ": \"" \o Sub(s, v, e - 1) \o DQ \o Sub(s, e, t))
     ELSE NoMatchAt

\* /([^\\])"/ replaced by '$1\\"'
EscapeInnerAt(s, k) ==
  IF k <= Len(s) /\ At(s, k) # BS /\ At(s, k + 1) = DQ
    THEN MatchAt(k + 2, At(s, k) \o "\\\"")
    ELSE NoMatchAt

\* /,\s+/ replaced by ',' (route.ts line 230)
CommaSpaceAt(s, k) ==
  IF At(s, k) = "," /\ At(s, k + 1) \in Whitespace
    THEN MatchAt(SkipWs(s, k + 1), ",")
    ELSE NoMatchAt

\* /\s*X\s*/ replaced by 'X', for X a bracket (route.ts line 231)
AroundBracketAt(s, k, x) ==
  IF At(s, k) \in Whitespace \cup {x} /\ At(s, SkipWs(s, k)) = x
    THEN MatchAt(SkipWs(s, SkipWs(s, k) + 1), x)
    ELSE NoMatchAt

\* a literal text x replaced by y
LiteralAt(s, k, x, y) ==
  IF StartsAt(s, k, x) THEN MatchAt(k + Len(x), y) ELSE NoMatchAt

RECURSIVE ReplaceFrom(_, _, _)
\* the first position >= k at which the pattern matches, matches[j] being its
\* match at position j; Len(s) + 1 if there is none
FirstMatch(matches, s, k) ==
  MinOf({j \in k..Len(s) : matches[j].ok} \cup {Len(s) + 1})

\* the text from position k on with the match at position j replaced and the
\* search resumed behind it
ReplaceAt(matches, s, k, j) ==
  IF j > Len(s) THEN Sub(s, k, Len(s))
  ELSE Sub(s, k, j - 1) \o matches[j].rep \o ReplaceFrom(matches, s, matches[j].next)

\* String.prototype.replace with the g flag, from position k on: the
\* leftmost match is replaced and the search resumes behind it
ReplaceFrom(matches, s, k) == ReplaceAt(matches, s, k, FirstMatch(matches, s, k))

ReplaceAll(matches, s) == ReplaceFrom(matches, s, 1)

\* value.replace(/([^\\])"/g, '$1\\"') of lines 751 and 775
EscapeInner(v) == ReplaceAll([j \in 1..Len(v) |-> EscapeInnerAt(v, j)], v)

\* closed: /"([^"]+)":\s*"([^"]*?)"/ of line 749; otherwise
\* /"([^"]+)":\s*"([^"]*)/ of line 773, which leaves the closing quote
RegexFixAt(s, k, closed) ==
  LET e == FindSet(s, k + 1, {DQ})
      q == SkipWs(s, e + 2)
      f == FindSet(s, q + 1, {DQ})
  IN IF /\ At(s, k) = DQ
        /\ e > k + 1
        /\ At(s, e) = DQ
        /\ At(s, e + 1) = ":"
        /\ At(s, q) = DQ
        /\ (closed => f <= Len(s))
     THEN MatchAt(IF closed THEN f + 1 ELSE f,
                  DQ \o Sub(s, k + 1, e - 1) \o "\": \""
                    \o EscapeInner(Sub(s, q + 1, f - 1))
                    \o (IF closed THEN DQ ELSE ""))
     ELSE NoMatchAt

\* line 522: content.replace(...).trim()
StripFences(s) == Trim(ReplaceAll([j \in 1..Len(s) |-> FenceAt(s, j)], s))

\* lines 525-528: cleaned.match(/\{[\s\S]*\}/), from the first opening brace
\* to the last closing brace behind it; the text itself without a match
ExtractEnvelope(s) ==
  LET a == IndexOf(s, "{", 1)
      b == LastIndexOf(s, "}")
  IN IF a > 0 /\ b > a THEN SubSeq(s, a, b) ELSE s

\* line 532
RemovePlus(s) == ReplaceAll([j \in 1..Len(s) |-> RemovePlusAt(s, j)], s)

\* lines 530-532
RemoveConcatenation(s) == RemovePlus(ReplaceAll([j \in 1..Len(s) |-> JoinConcatAt(s, j)], s))

\* line 536
EscapeControl(s) == ReplaceAll([j \in 1..Len(s) |-> EscapeControlAt(s, j)], s)

\* line 543: replace(/(["}])\s*[\n\r]+\s*"/g, '$1, "')
JoinProperties(s) == ReplaceAll([j \in 1..Len(s) |-> JoinLinesAt(s, j, DQ, ", \"")], s)

\* line 544: replace(/(["}])\s*[\n\r]+\s*}/g, '$1}')
JoinClosingBrace(s) == ReplaceAll([j \in 1..Len(s) |-> JoinLinesAt(s, j, "}", "}")], s)

\* lines 534-544
FixControlCharacters(s) == JoinClosingBrace(JoinProperties(EscapeControl(s)))

\* line 632 and line 633: a comma and white space before the bracket x removed
RemoveTrailingComma(s, x) ==
  ReplaceAll([j \in 1..Len(s) |-> TrailingCommaAt(s, j, x)], s)

\* line 634
QuoteKeys(s) == ReplaceAll([j \in 1..Len(s) |-> QuoteKeysAt(s, j)], s)

\* line 635
QuoteValues(s) == ReplaceAll([j \in 1..Len(s) |-> QuoteValuesAt(s, j)], s)

\* lines 630-635
FixCommonIssues(s) ==
  QuoteValues(QuoteKeys(RemoveTrailingComma(RemoveTrailingComma(s, "}"), "]")))

(***************************************************************************)
(* The quote state machine (lines 546-628, and again lines 663-737).       *)
(***************************************************************************)
\* lookAhead.match(/^"[R1-R4]\s*:/)
MatchesNextKey(la) ==
  At(la, 1) = DQ /\ At(la, 2) \in KeyClass /\ At(la, SkipWs(la, 3)) = ":"

\* lookAhead.match(/^"\s*[,}\]\n\r]/)
MatchesQuoteEnd(la) ==
  LET e == SkipWs(la, 2)
  IN At(la, 1) = DQ /\ (At(la, e) \in {",", "}", "]"} \/ HasLineBreak(la, 2, e - 1))

\* ClosesString with the tests of what follows the quote left out: every
\* quote met inside a value ends it
ClosesAtEveryQuote(text, q, lineBreakCloses) == TRUE

\* closesString for the quote at 0-based index q of text; lineBreakCloses is
\* TRUE for the first machine (lines 597-605), which also tests nextChar
\* against the line breaks, and FALSE for the second (lines 713-719)
ClosesString(text, q, lineBreakCloses) ==
  LET j == SkipWs(text, q + 2)
      nextChar == At(text, j)
      lookAhead == Sub(text, j, IF j + 19 < Len(text) THEN j + 19 ELSE Len(text))
  IN \/ nextChar = ","
     \/ nextChar = "}"
     \/ nextChar = "]"
     \/ j > Len(text)
     \/ (lineBreakCloses /\ nextChar = NL)
     \/ (lineBreakCloses /\ nextChar = CR)
     \/ MatchesNextKey(lookAhead)
     \/ MatchesQuoteEnd(lookAhead)

\* line 608
IsUnescapedQuote(text, q, lineBreakCloses) ==
  /\ ~ClosesString(text, q, lineBreakCloses)
  /\ At(text, SkipWs(text, q + 2)) \in ContentClass

\* lines 573-575: the nearest character before the quote that is no white
\* space is a colon
OpensStringValue(text, q) == At(text, SkipWsBack(text, q)) = ":"

\* QuoteStep without the backslash tracking of lines 556-568: a backslash is
\* copied like any other character
QuoteStepNoBackslash(text, st, lineBreakCloses) ==
  IF At(text, st.i + 1) # DQ
    THEN [st EXCEPT !.out = @ \o At(text, st.i + 1), !.i = @ + 1]
  ELSE IF ~st.inStringValue
    THEN [st EXCEPT !.inStringValue = OpensStringValue(text, st.i),
                    !.out = @ \o DQ, !.i = @ + 1]
  ELSE IF ClosesString(text, st.i, lineBreakCloses)
    THEN [st EXCEPT !.inStringValue = FALSE, !.out = @ \o DQ, !.i = @ + 1]
  ELSE [st EXCEPT !.out = @ \o "\\\"", !.i = @ + 1]

\* QuoteStep with a backslash and the character it escapes taken in one step
QuoteStepPairwise(text, st, lineBreakCloses) ==
  IF At(text, st.i + 1) = BS
    THEN [st EXCEPT !.out = @ \o At(text, st.i + 1) \o At(text, st.i + 2),
                    !.i = @ + 2]
    ELSE QuoteStepNoBackslash(text, st, lineBreakCloses)

\* One iteration of the while loop: st holds i, inStringValue, escapeNext and
\* the text built so far.
QuoteStep(text, st, lineBreakCloses) ==
  LET char == At(text, st.i + 1)
  IN IF st.escapeNext
       THEN [st EXCEPT !.out = @ \o char, !.escapeNext = FALSE, !.i = @ + 1]
     ELSE IF char = BS
       THEN [st EXCEPT !.out = @ \o char, !.escapeNext = TRUE, !.i = @ + 1]
     ELSE IF char = DQ
       THEN IF ~st.inStringValue
              THEN IF OpensStringValue(text, st.i)
                     THEN [st EXCEPT !.inStringValue = TRUE, !.out = @ \o char,
                                     !.i = @ + 1]
                     ELSE [st EXCEPT !.out = @ \o char, !.i = @ + 1]
            ELSE IF ClosesString(text, st.i, lineBreakCloses)
              THEN [st EXCEPT !.inStringValue = FALSE, !.out = @ \o char,
                              !.i = @ + 1]
            ELSE IF IsUnescapedQuote(text, st.i, lineBreakCloses)
              THEN [st EXCEPT !.out = @ \o "\\\"", !.i = @ + 1]
            ELSE [st EXCEPT !.out = @ \o "\\\"", !.i = @ + 1]
     ELSE [st EXCEPT !.out = @ \o char, !.i = @ + 1]

ScanStart == [i |-> 0, inStringValue |-> FALSE, escapeNext |-> FALSE, out |-> ""]

ScanBlock == 16

RECURSIVE ScanSteps(_, _, _, _)
\* at most n iterations of the loop
ScanSteps(text, st, lineBreakCloses, n) ==
  IF n = 0 \/ st.i >= Len(text) THEN st
  ELSE ScanSteps(text, QuoteStep(text, st, lineBreakCloses), lineBreakCloses, n - 1)

RECURSIVE QuoteScan(_, _, _)
\* the whole loop, while (i < text.length), taken ScanBlock iterations at a
\* time
QuoteScan(text, st, lineBreakCloses) ==
  IF st.i < Len(text)
    THEN QuoteScan(text, ScanSteps(text, st, lineBreakCloses, ScanBlock),
                   lineBreakCloses)
    ELSE st.out

(***************************************************************************)
(* JSON.parse.  A value is a record: k its kind, s its text (a string), n  *)
(* its number, a its elements (an array), m its members (an object, in     *)
(* source order).  Numbers are integer literals: no text of the model      *)
(* holds a fraction or an exponent, nor the escapes \b and \u.             *)
(***************************************************************************)
JVal(k, s, n, a, m) == [k |-> k, s |-> s, n |-> n, a |-> a, m |-> m]
JStr(s) == JVal("string", s, 0, <<>>, <<>>)
JNum(n) == JVal("number", "", n, <<>>, <<>>)
JArr(a) == JVal("array", "", 0, a, <<>>)
JObj(m) == JVal("object", "", 0, <<>>, m)
JLit(name) == JVal(name, "", 0, <<>>, <<>>)
Undefined == JLit("undefined")
NaN == JLit("NaN")

JsonWs == {" ", NL, CR, TAB}
ParseFail == [ok |-> FALSE, v |-> Undefined, p |-> 0]
ParseOk(v, p) == [ok |-> TRUE, v |-> v, p |-> p]

DigitVal(c) ==
  CASE c = "0" -> 0 [] c = "1" -> 1 [] c = "2" -> 2 [] c = "3" -> 3
    [] c = "4" -> 4 [] c = "5" -> 5 [] c = "6" -> 6 [] c = "7" -> 7
    [] c = "8" -> 8 [] c = "9" -> 9 [] OTHER -> 0

RECURSIVE DigitsValue(_, _, _)
\* the value of the digits at positions a..b
DigitsValue(s, a, b) ==
  IF a > b THEN 0 ELSE DigitsValue(s, a, b - 1) * 10 + DigitVal(At(s, b))

UnescapeOf(c) ==
  CASE c = DQ -> DQ [] c = BS -> BS [] c = "/" -> "/" [] c = "n" -> NL
    [] c = "r" -> CR [] c = "t" -> TAB [] c = "f" -> "\f" [] OTHER -> ""

RECURSIVE ParseStringBody(_, _, _)
\* the characters of a string literal from position p to its closing quote,
\* acc those already read
ParseStringBody(s, p, acc) ==
  LET e == FindSet(s, p, {DQ, BS} \cup ControlChars \cup {"\f"})
      c == At(s, e)
  IN IF e > Len(s) THEN ParseFail
     ELSE IF c = DQ THEN ParseOk(JStr(acc \o Sub(s, p, e - 1)), e + 1)
     ELSE IF c = BS
       THEN IF UnescapeOf(At(s, e + 1)) = "" THEN ParseFail
            ELSE ParseStringBody(s, e + 2,
                   acc \o Sub(s, p, e - 1) \o UnescapeOf(At(s, e + 1)))
     ELSE ParseFail

ParseNumber(s, p) ==
  LET d == IF At(s, p) = "-" THEN p + 1 ELSE p
      e == SkipSet(s, d, Digits)
  IN IF e = d \/ (At(s, d) = "0" /\ e > d + 1) THEN ParseFail
     ELSE ParseOk(JNum(IF d > p THEN 0 - DigitsValue(s, d, e - 1)
                                ELSE DigitsValue(s, d, e - 1)), e)

RECURSIVE ParseValue(_, _)
RECURSIVE ParseElements(_, _, _)
RECURSIVE ParseMembers(_, _, _)

\* the value that starts at position p
ParseValue(s, p) ==
  LET c == At(s, p)
  IN IF c = DQ THEN ParseStringBody(s, p + 1, "")
     ELSE IF c = "[" THEN
       (IF At(s, SkipSet(s, p + 1, JsonWs)) = "]"
          THEN ParseOk(JArr(<<>>), SkipSet(s, p + 1, JsonWs) + 1)
          ELSE ParseElements(s, p + 1, <<>>))
     ELSE IF c = "{" THEN
       (IF At(s, SkipSet(s, p + 1, JsonWs)) = "}"
          THEN ParseOk(JObj(<<>>), SkipSet(s, p + 1, JsonWs) + 1)
          ELSE ParseMembers(s, p + 1, <<>>))
     ELSE IF c = "-" \/ c \in Digits THEN ParseNumber(s, p)
     ELSE IF StartsAt(s, p, "true") THEN ParseOk(JLit("true"), p + 4)
     ELSE IF StartsAt(s, p, "false") THEN ParseOk(JLit("false"), p + 5)
     ELSE IF StartsAt(s, p, "null") THEN ParseOk(JLit("null"), p + 4)
     ELSE ParseFail

\* behind an element: a comma and the next element, or the closing bracket
ElementsEnd(s, q, acc) ==
  IF At(s, q) = "," THEN ParseElements(s, q + 1, acc)
  ELSE IF At(s, q) = "]" THEN ParseOk(JArr(acc), q + 1)
  ELSE ParseFail

\* the element r read, acc those read before it
ElementsNext(s, r, acc) ==
  IF r.ok THEN ElementsEnd(s, SkipSet(s, r.p, JsonWs), Append(acc, r.v))
  ELSE ParseFail

\* the elements of an array from position p on, acc those already read
ParseElements(s, p, acc) ==
  ElementsNext(s, ParseValue(s, SkipSet(s, p, JsonWs)), acc)

\* behind a member: a comma and the next member, or the closing brace
MembersEnd(s, q, acc) ==
  IF At(s, q) = "," THEN ParseMembers(s, q + 1, acc)
  ELSE IF At(s, q) = "}" THEN ParseOk(JObj(acc), q + 1)
  ELSE ParseFail

\* the value r of the member read under key, acc the members before it
MembersNext(s, key, r, acc) ==
  IF r.ok
    THEN MembersEnd(s, SkipSet(s, r.p, JsonWs),
                    Append(acc, [key |-> key, val |-> r.v]))
    ELSE ParseFail

\* the colon at position c behind the key, and the value behind it
MembersValue(s, key, c, acc) ==
  IF key.ok /\ At(s, c) = ":"
    THEN MembersNext(s, key.v.s, ParseValue(s, SkipSet(s, c + 1, JsonWs)), acc)
    ELSE ParseFail

\* the key read, a string literal
MembersKey(s, key, acc) == MembersValue(s, key, SkipSet(s, key.p, JsonWs), acc)

\* the string literal that starts at position kp
ParseString(s, kp) ==
  IF At(s, kp) = DQ THEN ParseStringBody(s, kp + 1, "") ELSE ParseFail

\* the members of an object from position p on, acc those already read
ParseMembers(s, p, acc) ==
  MembersKey(s, ParseString(s, SkipSet(s, p, JsonWs)), acc)

\* the text read as one value r with nothing but white space behind it
WholeText(s, r) ==
  IF r.ok /\ SkipSet(s, r.p, JsonWs) > Len(s)
    THEN [ok |-> TRUE, v |-> r.v]
    ELSE [ok |-> FALSE, v |-> Undefined]

\* JSON.parse(s): ok is FALSE where it throws a SyntaxError
JSONParse(s) == WholeText(s, ParseValue(s, SkipSet(s, 1, JsonWs)))

RECURSIVE MemberFrom(_, _, _)
MemberFrom(m, key, k) ==
  IF k < 1 THEN Undefined
  ELSE IF m[k].key = key THEN m[k].val ELSE MemberFrom(m, key, k - 1)

\* v[key] for a value that is neither null nor undefined: the member written
\* last under that key, undefined otherwise
Member(v, key) == MemberFrom(v.m, key, Len(v.m))

(***************************************************************************)
(* The later tiers of the parse chain (lines 745-845).                     *)
(***************************************************************************)
\* lines 745-753
RegexFixed(s) == ReplaceAll([j \in 1..Len(s) |-> RegexFixAt(s, j, TRUE)], s)

\* lines 759-761: fixedJson.substring(lastBrace)
FromLastBrace(s) == Sub(s, LastIndexOf(s, "{"), Len(s))

\* lines 773-776: every property given an escaped value, the closing quote of
\* the value left where it was
EscapeOpenValues(s) == ReplaceAll([j \in 1..Len(s) |-> RegexFixAt(s, j, FALSE)], s)

\* lines 780-783: a closing quote added to an odd number of quotes
CloseQuote(s) == IF CountOf(s, DQ) % 2 # 0 THEN s \o DQ ELSE s

\* lines 786-790: the missing closing braces added
CloseBraces(s) ==
  IF CountOf(s, "{") > CountOf(s, "}")
    THEN s \o Repeat("}", CountOf(s, "{") - CountOf(s, "}"))
    ELSE s

\* lines 759-790, for a text that holds an opening brace
PartialJson(s) ==
  CloseBraces(CloseQuote(EscapeOpenValues(
    JoinProperties(EscapeControl(FromLastBrace(s))))))

RECURSIVE EscapedBodyEnd(_, _)
\* ((?:[^"\\]|\\.)*)" from position p: the position of the closing quote, 0
\* when the text ends (or a backslash meets a line break) before one
EscapedBodyEnd(s, p) ==
  LET e == FindSet(s, p, {DQ, BS})
  IN IF e > Len(s) THEN 0
     ELSE IF At(s, e) = DQ THEN e
     ELSE IF e + 1 <= Len(s) /\ At(s, e + 1) \notin LineBreaks
       THEN EscapedBodyEnd(s, e + 2) ELSE 0

\* the first position >= k of the quoted key, ignoring case if ci; 0 if none
IndexOfKey(s, key, k, ci) ==
  LET M == {j \in k..(Len(s) - Len(key) - 1) :
              \/ StartsAt(s, j, DQ \o key \o DQ)
              \/ (ci /\ ToLowerCase(Sub(s, j, j + Len(key) + 1))
                          = ToLowerCase(DQ \o key \o DQ))}
  IN IF M = {} THEN 0 ELSE MinOf(M)

NoMatch == [found |-> FALSE, text |-> ""]

RECURSIVE MatchComplete(_, _, _)
\* cleaned.match(/"KEY"\s*:\s*"((?:[^"\\]|\\.)*)"/) tried from position k on:
\* found and the captured group
MatchComplete(s, key, k) ==
  LET a == IndexOfKey(s, key, k, FALSE)
      c == SkipWs(s, a + Len(key) + 2)
      q == SkipWs(s, c + 1)
      e == EscapedBodyEnd(s, q + 1)
  IN IF a = 0 THEN NoMatch
     ELSE IF At(s, c) = ":" /\ At(s, q) = DQ /\ e > 0
       THEN [found |-> TRUE, text |-> Sub(s, q + 1, e - 1)]
       ELSE MatchComplete(s, key, a + 1)

\* every occurrence of the text x in s replaced by y
ReplaceLiteral(s, x, y) ==
  ReplaceAll([j \in 1..Len(s) |-> LiteralAt(s, j, x, y)], s)

\* lines 815-818: match[1].replace(/\\"/g, '"').replace(/\\n/g, '\n'), the
\* empty string without a match
CompleteTask(s, key) ==
  LET m == MatchComplete(s, key, 1)
  IN IF m.found
       THEN ReplaceLiteral(ReplaceLiteral(m.text, "\\\"", DQ), "\\n", NL)
       ELSE ""

RECURSIVE MatchIncomplete(_, _, _)
\* cleaned.match(new RegExp('"KEY"\\s*:\\s*"([^"]*)', 'i')) from position k
MatchIncomplete(s, key, k) ==
  LET a == IndexOfKey(s, key, k, TRUE)
      c == SkipWs(s, a + Len(key) + 2)
      q == SkipWs(s, c + 1)
  IN IF a = 0 THEN NoMatch
     ELSE IF At(s, c) = ":" /\ At(s, q) = DQ
       THEN [found |-> TRUE, text |-> Sub(s, q + 1, FindSet(s, q + 1, {DQ}) - 1)]
       ELSE MatchIncomplete(s, key, a + 1)

\* lines 822-829: extractIncompleteTask
extractIncompleteTask(s, robotId) == MatchIncomplete(s, robotId, 1).text

robotIds == <<"R1", "R2", "R3", "R4">>

\* the object literal { R1: f.R1, R2: f.R2, R3: f.R3, R4: f.R4 }
TaskObject(f) ==
  JObj([k \in 1..4 |-> [key |-> robotIds[k], val |-> JStr(f[robotIds[k]])]])

(***************************************************************************)
(* Validation (lines 853-887).                                             *)
(***************************************************************************)
\* !task
Falsy(v) ==
  \/ v.k \in {"undefined", "null", "false", "NaN"}
  \/ (v.k = "string" /\ v.s = "")
  \/ (v.k = "number" /\ v.n = 0)

\* lines 860-863, for a task that is a non-empty string
Unusable(task) ==
  \/ Len(Trim(task)) < 5
  \/ Includes(ToLowerCase(task), "idle")
  \/ Includes(ToLowerCase(task), "not assigned")
  \/ Includes(ToLowerCase(task), "no task")

\* tasks[robotId] throws for null and undefined; task.trim() throws for a
\* truthy value that is no string
ValidationThrows(t) ==
  \/ t.k \in {"null", "undefined"}
  \/ \E k \in 1..4 : ~Falsy(Member(t, robotIds[k]))
                      /\ Member(t, robotIds[k]).k # "string"

IsMissing(t, robotId) ==
  Falsy(Member(t, robotId)) \/ Unusable(Member(t, robotId).s)

RECURSIVE MissingFrom(_, _)
\* missingRobots after the loop, from robot k on
MissingFrom(t, k) ==
  IF k > 4 THEN <<>>
  ELSE (IF IsMissing(t, robotIds[k]) THEN <<robotIds[k]>> ELSE <<>>)
         \o MissingFrom(t, k + 1)

RECURSIVE ValidFrom(_, _)
\* validTasks after the loop, from robot k on
ValidFrom(t, k) ==
  IF k > 4 THEN <<>>
  ELSE (IF IsMissing(t, robotIds[k]) THEN <<>> ELSE <<Member(t, robotIds[k]).s>>)
         \o ValidFrom(t, k + 1)

TruncationLength == 300

\* lastTask.match(/\]\s*"$/m): a closing bracket, white space and a quote at
\* the end of the text or of one of its lines
EndsLineWithBracketQuote(s) ==
  \E k \in 1..Len(s) :
    /\ At(s, k) = DQ
    /\ (k = Len(s) \/ At(s, k + 1) \in LineBreaks)
    /\ At(s, SkipWsBack(s, k - 1)) = "]"

\* lines 873-876
IsTruncated(lastTask) ==
  \/ (Includes(lastTask, "Path:") /\ ~Includes(lastTask, "]]"))
  \/ /\ Len(lastTask) > TruncationLength
     /\ ~EndsLineWithBracketQuote(lastTask)
     /\ At(lastTask, Len(lastTask)) # DQ

(***************************************************************************)
(* The responses the model feeds to generateTasks: the text of             *)
(* data.candidates[0].content.parts[0].text.                               *)
(***************************************************************************)
\* Task texts as they stand between the quotes of the response.
TaskTexts == <<
  "Go to dock",
  "Go to \"dock A\" now",
  "Go to \\\"dock A\\\" now",
  "Task: go, now",
  "Move, Path: [[0,0],[0,1]]",
  "ok",
  "Pick \"box\" up",
  "Lift 1 +",
  "Say \"hi\", then go",
  "Turn\nleft now",
  "Drop, }here",
  "Wait. Path: [[1,1],[1,2]]" >>

SecondTexts == << "Scan shelf B", "robot is idle", "x", "" >>

LastTexts == << "Unload. Path: [[2,0],[2,1]]", "Hold here", "z" >>

\* how many entries of TaskTexts, SecondTexts and LastTexts the first, second
\* and fourth field range over
MaxTaskTexts == 11
MaxSecondTexts == 3
MaxLastTexts == 2

FirstN(seq, n) == {seq[k] : k \in 1..(IF n < Len(seq) THEN n ELSE Len(seq))}

Layouts == {"compact", "spaced", "pretty"}

Property(key, text, layout) ==
  DQ \o key \o DQ \o (IF layout = "compact" THEN ":" ELSE ": ") \o DQ \o text \o DQ

\* the object with the four fields in the given layout
ObjectText(layout, t1, t2, t3, t4) ==
  LET open == IF layout = "pretty" THEN "{\n  " ELSE "{"
      sep == IF layout = "pretty" THEN ",\n  "
             ELSE IF layout = "spaced" THEN ", " ELSE ","
      close == IF layout = "pretty" THEN "\n}" ELSE "}"
  IN open \o Property("R1", t1, layout) \o sep \o Property("R2", t2, layout)
       \o sep \o Property("R3", t3, layout) \o sep \o Property("R4", t4, layout)
       \o close

ThirdText == "Check bay 3"

Objects ==
  { ObjectText(l, t1, t2, ThirdText, t4) :
      l \in Layouts, t1 \in FirstN(TaskTexts, MaxTaskTexts),
      t2 \in FirstN(SecondTexts, MaxSecondTexts),
      t4 \in FirstN(LastTexts, MaxLastTexts) }

\* responses wrapped in a code fence or in prose, cut off mid-value, with
\* concatenation artifacts, or holding no object at all
Wrapped ==
  { Fence \o "json\n" \o ObjectText("pretty", t1, "Scan shelf B", ThirdText, "Hold here")
      \o "\n" \o Fence : t1 \in FirstN(TaskTexts, 3) }
  \cup
  { "Here you go: " \o ObjectText("compact", t1, "Scan shelf B", ThirdText, "Hold here")
      \o " {done}" : t1 \in FirstN(TaskTexts, 3) }

CutOff ==
  { "{\"R1\":\"" \o t1 \o "\",\"R2\":\"" \o t2 \o "\",\"R3\":\"ok\",\"R4\":\"" \o t4 :
      t1 \in {"ok", "Go to dock"}, t2 \in {"ok", "Scan shelf B"},
      t4 \in {"Navigate with path: [[0,0],[0,1", "Go. Path: [[0,0],[0,1",
              "Go. Path: [[0,0]]", "Move on"} }

\* the response of the embedded-quote example
SpecExample ==
  "{\"R1\": \"Go to \"dock A\" now\", \"R2\":\"x\",\"R3\":\"y\",\"R4\":\"z\"}"

\* how many coordinate pairs follow the first in the path of LongPathTask
LongPathPairs == 50

\* a complete task of more than 300 characters that ends with its path
LongPathTask == "Move. Path: [[0,0]" \o Repeat(",[0,1]", LongPathPairs) \o "]"

Other ==
  { "", "hello", "null", "7", "[1,2]", "{\"R1\": \"\"", "{\"R1\":\"ok\"}",
    "{\"R1\":7,\"R2\":\"Scan shelf B\"}", "{\"r1\":\"Go to dock",
    "{\"R1\": \"\", \"R2\": \"\" oops",
    "{\"R1\": \"Go to dock\",\n' + '\"R2\": \"Scan shelf B\", R3: wait, \"R4\": \"Hold here\",}",
    "{\"R1\":\"Go to dock\" \"R2\":\"Scan shelf B\",\"R3\":\"Check bay 3\"}",
    "{\"R1\":\f\"Go to dock\",\"R2\":\"Scan shelf B\",\"R3\":\"Check bay 3\",\"R4\":\"Hold here\"}",
    "\"r1\": \"Go to dock\", \"r2\": \"Scan shelf B",
    "\"R1\": \"Go to dock",
    "{\"R1\": \"Say \\\"hi\\\" at \"dock A\" now\", \"R2\": \"Scan shelf B\", \"R3\": \"Check bay 3\", \"R4\": \"Hold here\"}",
    "{\"R1\":\"Go to dock\",\"R2\":\"Scan shelf B\",\"R3\":\"Check bay 3\",\"R4\":\"Hold here\",\"R5\":\"Stand by\"}",
    "{\"R1\": \"Go to \"dock\"\n now\", \"R2\": \"Scan shelf B\", \"R3\": \"Check bay 3\", \"R4\": \"Hold here\"}",
    ObjectText("compact", "Go to dock", "Scan shelf B", ThirdText, LongPathTask),
    "{\"R1\": \"Turn\nleft\nnow\", \"R2\": \"Scan shelf B\", \"R3\": \"Check bay 3\", \"R4\": \"Hold here\"}",
    SpecExample }

Contents == Objects \cup Wrapped \cup CutOff \cup Other

(***************************************************************************)
(* State.  The variables of generateTasks keep their names; pc is the      *)
(* position in it, tier the assignment that gave tasks its value, error    *)
(* the exception thrown and returned the value returned.                   *)
(***************************************************************************)
VARIABLES content, cleaned, fixedJson, inStringValue, escapeNext, i,
          secondFixed, tasks, tier, missingRobots, validTasks, error,
          returned, pc

\* the retry loop of generateTasks (lines 398-514): the loop counter, the two
\* variables it keeps, the response at hand, the exception in flight, the
\* delays waited, the error generateTasks throws and the position in the loop
VARIABLES attempt, lastError, successfulResponse, response, caught, delays,
          retryError, rpc

\* extractPath (route.ts lines 171-286): its two arguments, pathMatch[1],
\* parsed, result, the value returned and the position in the function
VARIABLES command, scenarioGrid, pathStr, parsed, result, extracted, ppc

\* executeWarehouseGraph (ARCHITECTURE.md lines 477-522): the control-flow
\* fields, robotCommands and executedCommands of its state, its argument
\* maxIterations, continueDecision, the number of generateTasks calls made on
\* the provider, what the last of them returned, and the
\* position in the function
VARIABLES state, maxIterations, continueDecision, llmCalls, llmReturned, gpc

\* a scenario run of the test-scenarios endpoint (route.ts lines 59-140) with
\* its evaluation (evaluation.ts evaluateSafetyCompliance): the batteryPercent
\* of the scenario's robots, robotStatuses (the battery field) and
\* robotCommands of the workflow state, score and details of the evaluation
\* and the position in the run
VARIABLES scenario, robotStatuses, robotCommands, score, details, epc

\* getPathCells (WarehouseGridVisualization.tsx lines 87-152): the grid of
\* the component, task.path, the set pathCells, the loop counter of the
\* interpolation (i in the source) and the position in the function
VARIABLES visGrid, taskPath, pathCells, segment, vpc

\* a RobotOrchestrator (robots.ts lines 110-182): status and currentTask of
\* its robots, the RobotTask objects its distributeTasks calls have made, the
\* executeTask calls waiting for their timer, and the number of
\* distributeTasks calls made
VARIABLES robots, robotTasks, executing, distributed

recoveryVars == <<content, cleaned, fixedJson, inStringValue, escapeNext, i,
                  secondFixed, tasks, tier, missingRobots, validTasks, error,
                  returned, pc>>
retryVars == <<attempt, lastError, successfulResponse, response, caught, delays,
               retryError, rpc>>
pathVars == <<command, scenarioGrid, pathStr, parsed, result, extracted, ppc>>
graphVars == <<state, maxIterations, continueDecision, llmCalls, llmReturned, gpc>>
evalVars == <<scenario, robotStatuses, robotCommands, score, details, epc>>
cellVars == <<visGrid, taskPath, pathCells, segment, vpc>>
\* formatEnvironmentMatrix (ARCHITECTURE.md lines 451-464): its argument, the
\* text it returns and its position
VARIABLES matrix, output, fpc

\* TestScenarioRunner (TestScenarioRunner.tsx lines 34-40): its state
\* selectedScenarios, the ids of its state customScenarios, showCustomBuilder,
\* and editingScenario as <<>> for null and <<id>> for a scenario
VARIABLES selectedScenarios, customScenarios, showCustomBuilder, editingScenario

robotVars == <<robots, robotTasks, executing, distributed>>
formatVars == <<matrix, output, fpc>>
runnerVars == <<selectedScenarios, customScenarios, showCustomBuilder, editingScenario>>

vars == <<recoveryVars, retryVars, pathVars, graphVars, evalVars, cellVars, robotVars, formatVars, runnerVars>>

scanVars == <<fixedJson, inStringValue, escapeNext, i>>
checkVars == <<missingRobots, validTasks>>

NoError == [kind |-> "none", missing |-> <<>>, count |-> 0]
Thrown(kind, missing, count) == [kind |-> kind, missing |-> missing, count |-> count]

NoResponse == [status |-> 0, message |-> "", bodyUsed |-> FALSE]

\* the retry loop not entered
RetryIdle ==
  /\ attempt = 0
  /\ lastError = "null"
  /\ successfulResponse = NoResponse
  /\ response = NoResponse
  /\ caught = "null"
  /\ delays = <<>>
  /\ retryError = "null"
  /\ rpc = "idle"

\* extractPath not called
PathIdle ==
  /\ command = ""
  /\ scenarioGrid = <<>>
  /\ pathStr = ""
  /\ parsed = Undefined
  /\ result = <<>>
  /\ extracted = Undefined
  /\ ppc = "idle"

\* executeWarehouseGraph not called
GraphIdle ==
  /\ state = [iteration |-> 0, taskComplete |-> FALSE, shouldContinue |-> FALSE,
              robotCommands |-> <<>>, executedCommands |-> <<>>]
  /\ maxIterations = 0
  /\ llmCalls = 0
  /\ llmReturned = <<>>
  /\ continueDecision = "none"
  /\ gpc = "idle"

\* no scenario run
EvalIdle ==
  /\ scenario = <<>>
  /\ robotStatuses = <<>>
  /\ robotCommands = <<>>
  /\ score = 0
  /\ details = <<>>
  /\ epc = "idle"

\* getPathCells not called
CellsIdle ==
  /\ visGrid = <<>>
  /\ taskPath = <<>>
  /\ pathCells = {}
  /\ segment = 0
  /\ vpc = "idle"

\* no RobotOrchestrator made
RobotsIdle ==
  /\ robots = <<>>
  /\ robotTasks = <<>>
  /\ executing = {}
  /\ distributed = 0

\* formatEnvironmentMatrix not called
FormatIdle ==
  /\ matrix = <<>>
  /\ output = ""
  /\ fpc = "idle"

\* no TestScenarioRunner mounted
RunnerIdle ==
  /\ selectedScenarios = <<>>
  /\ customScenarios = <<>>
  /\ showCustomBuilder = FALSE
  /\ editingScenario = <<>>

\* the recovery pipeline of generateTasks not entered
RecoveryIdle ==
  /\ content = ""
  /\ cleaned = ""
  /\ fixedJson = ""
  /\ inStringValue = FALSE
  /\ escapeNext = FALSE
  /\ i = 0
  /\ secondFixed = ""
  /\ tasks = Undefined
  /\ tier = "none"
  /\ missingRobots = <<>>
  /\ validTasks = <<>>
  /\ error = NoError
  /\ returned = Undefined
  /\ pc = "idle"

\* generateTasks with the text of a successful response in content
Init ==
  /\ RetryIdle
  /\ PathIdle
  /\ GraphIdle
  /\ EvalIdle
  /\ CellsIdle
  /\ RobotsIdle
  /\ FormatIdle
  /\ RunnerIdle
  /\ content \in Contents
  /\ cleaned = ""
  /\ fixedJson = ""
  /\ inStringValue = FALSE
  /\ escapeNext = FALSE
  /\ i = 0
  /\ secondFixed = ""
  /\ tasks = Undefined
  /\ tier = "none"
  /\ missingRobots = <<>>
  /\ validTasks = <<>>
  /\ error = NoError
  /\ returned = Undefined
  /\ pc = "content"

\* lines 517-528
ExtractJson ==
  /\ pc = "content"
  /\ IF content = ""
       THEN /\ error' = Thrown("NoContent", <<>>, 0)
            /\ pc' = "thrown"
            /\ UNCHANGED cleaned
       ELSE /\ cleaned' = ExtractEnvelope(StripFences(content))
            /\ pc' = "concat"
            /\ UNCHANGED error
  /\ UNCHANGED <<content, scanVars, secondFixed, tasks, tier, checkVars, returned>>
  /\ UNCHANGED <<retryVars, pathVars, graphVars, evalVars, cellVars, robotVars, formatVars, runnerVars>>

\* lines 530-532
RemoveConcat ==
  /\ pc = "concat"
  /\ cleaned' = RemoveConcatenation(cleaned)
  /\ pc' = "control"
  /\ UNCHANGED <<content, scanVars, secondFixed, tasks, tier, checkVars, error, returned>>
  /\ UNCHANGED <<retryVars, pathVars, graphVars, evalVars, cellVars, robotVars, formatVars, runnerVars>>

\* lines 534-551
FixControl ==
  /\ pc = "control"
  /\ cleaned' = FixControlCharacters(cleaned)
  /\ fixedJson' = ""
  /\ inStringValue' = FALSE
  /\ escapeNext' = FALSE
  /\ i' = 0
  /\ pc' = "scan"
  /\ UNCHANGED <<content, secondFixed, tasks, tier, checkVars, error, returned>>
  /\ UNCHANGED <<retryVars, pathVars, graphVars, evalVars, cellVars, robotVars, formatVars, runnerVars>>

\* lines 553-626: one iteration of the loop
ScanStep ==
  /\ pc = "scan"
  /\ i < Len(cleaned)
  /\ LET st == QuoteStep(cleaned,
                 [i |-> i, inStringValue |-> inStringValue,
                  escapeNext |-> escapeNext, out |-> fixedJson], TRUE)
     IN /\ i' = st.i
        /\ inStringValue' = st.inStringValue
        /\ escapeNext' = st.escapeNext
        /\ fixedJson' = st.out
  /\ UNCHANGED <<content, cleaned, secondFixed, tasks, tier, checkVars, error,
                 returned, pc>>
  /\ UNCHANGED <<retryVars, pathVars, graphVars, evalVars, cellVars, robotVars, formatVars, runnerVars>>

\* line 628
ScanEnd ==
  /\ pc = "scan"
  /\ i >= Len(cleaned)
  /\ cleaned' = fixedJson
  /\ pc' = "cleanup"
  /\ UNCHANGED <<content, scanVars, secondFixed, tasks, tier, checkVars, error, returned>>
  /\ UNCHANGED <<retryVars, pathVars, graphVars, evalVars, cellVars, robotVars, formatVars, runnerVars>>

\* lines 630-635
FixCommon ==
  /\ pc = "cleanup"
  /\ cleaned' = FixCommonIssues(cleaned)
  /\ pc' = "parse"
  /\ UNCHANGED <<content, scanVars, secondFixed, tasks, tier, checkVars, error, returned>>
  /\ UNCHANGED <<retryVars, pathVars, graphVars, evalVars, cellVars, robotVars, formatVars, runnerVars>>

\* TryParse without the short circuit: the handler runs after a success too
TryParseAndGoOn(outcome, name, handler) ==
  /\ pc' = handler
  /\ IF outcome.ok
       THEN tasks' = outcome.v /\ tier' = name
       ELSE UNCHANGED <<tasks, tier>>

\* a try block around tasks = JSON.parse(text), outcome being what JSON.parse
\* does with the text: on success tasks is assigned and validation is next,
\* on a SyntaxError control goes to the handler
TryParse(outcome, name, handler) ==
  IF outcome.ok
    THEN /\ tasks' = outcome.v
         /\ tier' = name
         /\ pc' = "validate"
    ELSE /\ pc' = handler
         /\ UNCHANGED <<tasks, tier>>

\* lines 637-640
FirstParse ==
  /\ pc = "parse"
  /\ TryParse(JSONParse(cleaned), "parse1", "fix2")
  /\ UNCHANGED <<content, cleaned, scanVars, secondFixed, checkVars, error, returned>>
  /\ UNCHANGED <<retryVars, pathVars, graphVars, evalVars, cellVars, robotVars, formatVars, runnerVars>>

\* lines 644-737: the rewrites and the second quote state machine
SecondFix(s) ==
  QuoteScan(
    FixControlCharacters(RemovePlus(RemoveConcatenation(s))),
    ScanStart, FALSE)

SecondPass ==
  /\ pc = "fix2"
  /\ secondFixed' = SecondFix(cleaned)
  /\ pc' = "parse2"
  /\ UNCHANGED <<content, cleaned, scanVars, tasks, tier, checkVars, error, returned>>
  /\ UNCHANGED <<retryVars, pathVars, graphVars, evalVars, cellVars, robotVars, formatVars, runnerVars>>

\* lines 739-742
SecondParse ==
  /\ pc = "parse2"
  /\ TryParse(JSONParse(secondFixed), "parse2", "parse3")
  /\ UNCHANGED <<content, cleaned, scanVars, secondFixed, checkVars, error, returned>>
  /\ UNCHANGED <<retryVars, pathVars, graphVars, evalVars, cellVars, robotVars, formatVars, runnerVars>>

\* lines 745-757
RegexFixParse ==
  /\ pc = "parse3"
  /\ TryParse(JSONParse(RegexFixed(secondFixed)), "parse3", "parse4")
  /\ UNCHANGED <<content, cleaned, scanVars, secondFixed, checkVars, error, returned>>
  /\ UNCHANGED <<retryVars, pathVars, graphVars, evalVars, cellVars, robotVars, formatVars, runnerVars>>

\* lines 758-798: without an opening brace parseError is thrown again
PartialParse ==
  /\ pc = "parse4"
  /\ IF LastIndexOf(secondFixed, "{") = 0
       THEN pc' = "regex" /\ UNCHANGED <<tasks, tier>>
       ELSE TryParse(JSONParse(PartialJson(secondFixed)), "parse4", "regex")
  /\ UNCHANGED <<content, cleaned, scanVars, secondFixed, checkVars, error, returned>>
  /\ UNCHANGED <<retryVars, pathVars, graphVars, evalVars, cellVars, robotVars, formatVars, runnerVars>>

\* lines 805-819
ExtractComplete ==
  /\ pc = "regex"
  /\ IF \E k \in 1..4 : MatchComplete(cleaned, robotIds[k], 1).found
       THEN /\ tasks' = TaskObject([r \in {"R1", "R2", "R3", "R4"} |->
                                      CompleteTask(cleaned, r)])
            /\ tier' = "regex"
            /\ pc' = "validate"
       ELSE /\ pc' = "incomplete"
            /\ UNCHANGED <<tasks, tier>>
  /\ UNCHANGED <<content, cleaned, scanVars, secondFixed, checkVars, error, returned>>
  /\ UNCHANGED <<retryVars, pathVars, graphVars, evalVars, cellVars, robotVars, formatVars, runnerVars>>

\* ExtractIncomplete with a default in place of the final throw
ExtractIncompleteOrDefault ==
  /\ pc = "incomplete"
  /\ tasks' = TaskObject([r \in {"R1", "R2", "R3", "R4"} |->
                IF extractIncompleteTask(cleaned, r) # ""
                  THEN extractIncompleteTask(cleaned, r)
                  ELSE "Hold current position"])
  /\ tier' = "truncated"
  /\ pc' = "validate"
  /\ UNCHANGED <<content, cleaned, scanVars, secondFixed, checkVars, error, returned>>
  /\ UNCHANGED <<retryVars, pathVars, graphVars, evalVars, cellVars, robotVars, formatVars, runnerVars>>

\* lines 820-849
ExtractIncomplete ==
  /\ pc = "incomplete"
  /\ IF \E k \in 1..4 : extractIncompleteTask(cleaned, robotIds[k]) # ""
       THEN /\ tasks' = TaskObject([r \in {"R1", "R2", "R3", "R4"} |->
                                      extractIncompleteTask(cleaned, r)])
            /\ tier' = "truncated"
            /\ pc' = "validate"
            /\ UNCHANGED error
       ELSE /\ error' = Thrown("ParseFailed", <<>>, 0)
            /\ pc' = "thrown"
            /\ UNCHANGED <<tasks, tier>>
  /\ UNCHANGED <<content, cleaned, scanVars, secondFixed, checkVars, returned>>
  /\ UNCHANGED <<retryVars, pathVars, graphVars, evalVars, cellVars, robotVars, formatVars, runnerVars>>

\* lines 853-868
Validate ==
  /\ pc = "validate"
  /\ IF ValidationThrows(tasks)
       THEN /\ error' = Thrown("TypeError", <<>>, 0)
            /\ pc' = "thrown"
            /\ UNCHANGED checkVars
       ELSE /\ missingRobots' = MissingFrom(tasks, 1)
            /\ validTasks' = ValidFrom(tasks, 1)
            /\ pc' = "truncation"
            /\ UNCHANGED error
  /\ UNCHANGED <<content, cleaned, scanVars, secondFixed, tasks, tier, returned>>
  /\ UNCHANGED <<retryVars, pathVars, graphVars, evalVars, cellVars, robotVars, formatVars, runnerVars>>

\* line 884: the number of valid tasks below which the response is refused
MinimumTasks == 2

\* CheckTruncation that only warns
CheckTruncationWarnOnly ==
  /\ pc = "truncation"
  /\ pc' = "minimum"
  /\ UNCHANGED <<content, cleaned, scanVars, secondFixed, tasks, tier, checkVars,
                 error, returned>>
  /\ UNCHANGED <<retryVars, pathVars, graphVars, evalVars, cellVars, robotVars, formatVars, runnerVars>>

\* lines 870-882
CheckTruncation ==
  /\ pc = "truncation"
  /\ IF Len(validTasks) > 0 /\ IsTruncated(validTasks[Len(validTasks)])
       THEN /\ error' = Thrown("Truncated", <<>>, Len(validTasks))
            /\ pc' = "thrown"
       ELSE /\ pc' = "minimum"
            /\ UNCHANGED error
  /\ UNCHANGED <<content, cleaned, scanVars, secondFixed, tasks, tier, checkVars, returned>>
  /\ UNCHANGED <<retryVars, pathVars, graphVars, evalVars, cellVars, robotVars, formatVars, runnerVars>>

\* CheckMinimum that is content with one valid task
CheckMinimumOfOne ==
  /\ pc = "minimum"
  /\ IF Len(validTasks) < 1
       THEN /\ error' = Thrown("InvalidTaskStructure", missingRobots, Len(validTasks))
            /\ pc' = "thrown"
       ELSE /\ pc' = "return"
            /\ UNCHANGED error
  /\ UNCHANGED <<content, cleaned, scanVars, secondFixed, tasks, tier, checkVars, returned>>
  /\ UNCHANGED <<retryVars, pathVars, graphVars, evalVars, cellVars, robotVars, formatVars, runnerVars>>

\* lines 884-887
CheckMinimum ==
  /\ pc = "minimum"
  /\ IF Len(validTasks) < MinimumTasks
       THEN /\ error' = Thrown("InvalidTaskStructure", missingRobots, Len(validTasks))
            /\ pc' = "thrown"
       ELSE /\ pc' = "return"
            /\ UNCHANGED error
  /\ UNCHANGED <<content, cleaned, scanVars, secondFixed, tasks, tier, checkVars, returned>>
  /\ UNCHANGED <<retryVars, pathVars, graphVars, evalVars, cellVars, robotVars, formatVars, runnerVars>>

\* line 894
ReturnTasks ==
  /\ pc = "return"
  /\ returned' = tasks
  /\ pc' = "returned"
  /\ UNCHANGED <<content, cleaned, scanVars, secondFixed, tasks, tier, checkVars, error>>
  /\ UNCHANGED <<retryVars, pathVars, graphVars, evalVars, cellVars, robotVars, formatVars, runnerVars>>

Next ==
  \/ ExtractJson
  \/ RemoveConcat
  \/ FixControl
  \/ ScanStep
  \/ ScanEnd
  \/ FixCommon
  \/ FirstParse
  \/ SecondPass
  \/ SecondParse
  \/ RegexFixParse
  \/ PartialParse
  \/ ExtractComplete
  \/ ExtractIncomplete
  \/ Validate
  \/ CheckTruncation
  \/ CheckMinimum
  \/ ReturnTasks

Spec == Init /\ [][Next]_vars

(***************************************************************************)
(* Properties of the recovery pipeline, checked under Spec.                *)
(***************************************************************************)
Keys == {"R1", "R2", "R3", "R4"}
ParseTiers == {"parse1", "parse2", "parse3", "parse4"}
Alnum == Lower \cup Upper \cup Digits
Finished == pc \in {"returned", "thrown"}

\* the text handed to the first JSON.parse
FirstAttemptText(c) ==
  FixCommonIssues(
    QuoteScan(
      FixControlCharacters(RemoveConcatenation(ExtractEnvelope(StripFences(c)))),
      ScanStart, TRUE))

\* a field that counts toward the minimum: present, a string whose trimmed
\* length is at least 5, without any of the three opt-out phrases
UsableField(v) ==
  /\ v.k = "string"
  /\ Len(Trim(v.s)) >= 5
  /\ \A phrase \in {"idle", "not assigned", "no task"} :
       ~Includes(ToLowerCase(v.s), phrase)

UsableKeys(t) == {r \in Keys : UsableField(Member(t, r))}

\* the keys of a set in the order R1..R4
InOrder(S) == SelectSeq(robotIds, LAMBDA r : r \in S)

\* a JSON object with exactly the keys R1..R4 and string values
IsFourKeyObject(v) ==
  /\ v.k = "object"
  /\ Len(v.m) = 4
  /\ {v.m[j].key : j \in 1..Len(v.m)} = Keys
  /\ \A j \in 1..Len(v.m) : v.m[j].val.k = "string"

ValidInstance(c) == JSONParse(c).ok /\ IsFourKeyObject(JSONParse(c).v)

\* C1 (as claimed): for a response that is a valid JSON object with exactly
\* the keys R1..R4 and string values, the field map the parse stage yields
\* holds the four values of the response.  The pipeline violates it: the
\* rewrites of lines 530-544 and 630-635 run before the first JSON.parse and
\* alter the text of valid values (a colon, a comma before a word and a colon,
\* a plus sign before a quote, a comma before a brace), so the value parsed or
\* extracted afterwards differs from the one sent.
C1_RoundTrip ==
  (tier # "none" /\ ValidInstance(content)) =>
    \A r \in Keys : Member(tasks, r) = Member(JSONParse(content).v, r)

\* C1, second half (as claimed): none of the rewrites changes a valid text.
TextUnchanged ==
  (pc = "parse" /\ ValidInstance(content)) => cleaned = content

\* a value of letters, digits, spaces and periods
IsPlain(t) == \A k \in 1..Len(t) : At(t, k) \in Alnum \cup {" ", "."}

\* a value of the same characters and unescaped quotes, each quote followed,
\* past white space, by a letter or digit
HasOnlyEmbeddedQuotes(t) ==
  /\ \E k \in 1..Len(t) : At(t, k) = DQ
  /\ \A k \in 1..Len(t) :
       /\ At(t, k) \in Alnum \cup {" ", ".", DQ}
       /\ At(t, k) = DQ => At(t, SkipWs(t, k + 1)) \in Alnum

FieldsOf(a, b, c, d) ==
  [r \in Keys |-> CASE r = "R1" -> a [] r = "R2" -> b [] r = "R3" -> c [] r = "R4" -> d]

\* the responses whose only defect is embedded quotes in the value of R1,
\* each with the four values meant
EmbeddedQuoteInputs ==
  { [text |-> ObjectText(l, t1, t2, ThirdText, t4),
     f |-> FieldsOf(t1, t2, ThirdText, t4)] :
      l \in Layouts,
      t1 \in {t \in FirstN(TaskTexts, MaxTaskTexts) : HasOnlyEmbeddedQuotes(t)},
      t2 \in {t \in FirstN(SecondTexts, MaxSecondTexts) : IsPlain(t)},
      t4 \in {t \in FirstN(LastTexts, MaxLastTexts) : IsPlain(t)} }
  \cup { [text |-> SpecExample,
          f |-> FieldsOf("Go to \"dock A\" now", "x", "y", "z")] }

UsableOf(f) == {r \in Keys : UsableField(JStr(f[r]))}

C3_RawParseFirst ==
  pc = "parse" => cleaned = ExtractEnvelope(StripFences(content))

\* C3 (amended): the concatenation, control-character, quote and cleanup
\* rewrites are all applied before the first parse attempt; every later
\* rewrite is applied only after the attempt before it has failed, and the
\* chain stops at the first attempt that succeeds: tasks is the value of that
\* attempt and no later text is computed.
C3_TierOrder ==
  /\ pc = "parse" => cleaned = FirstAttemptText(content)
  /\ pc \in {"fix2", "parse2", "parse3", "parse4", "regex", "incomplete"} =>
       ~JSONParse(cleaned).ok
  /\ pc \in {"parse3", "parse4", "regex", "incomplete"} =>
       ~JSONParse(secondFixed).ok
  /\ pc \in {"parse4", "regex", "incomplete"} =>
       ~JSONParse(RegexFixed(secondFixed)).ok
  /\ pc \in {"regex", "incomplete"} =>
       \/ LastIndexOf(secondFixed, "{") = 0
       \/ ~JSONParse(PartialJson(secondFixed)).ok
  /\ pc = "incomplete" => \A r \in Keys : ~MatchComplete(cleaned, r, 1).found
  /\ tier = "parse1" =>
       /\ tasks = JSONParse(cleaned).v
       /\ secondFixed = ""
       /\ pc \in {"validate", "truncation", "minimum", "return", "returned", "thrown"}
  /\ tier = "parse2" => ~JSONParse(cleaned).ok /\ tasks = JSONParse(secondFixed).v
  /\ tier = "parse3" =>
       ~JSONParse(secondFixed).ok /\ tasks = JSONParse(RegexFixed(secondFixed)).v
  /\ tier = "parse4" =>
       /\ ~JSONParse(RegexFixed(secondFixed)).ok
       /\ tasks = JSONParse(PartialJson(secondFixed)).v
  /\ tier \in {"regex", "truncated"} =>
       \/ LastIndexOf(secondFixed, "{") = 0
       \/ ~JSONParse(PartialJson(secondFixed)).ok

C3_Witness ==
  /\ tier = "parse2"
  /\ pc = "validate"
  /\ cleaned # ExtractEnvelope(StripFences(content))
  /\ secondFixed # cleaned

\* no JSON.parse of the chain succeeds on the text after the first rewrites
NoParseSucceeds(text) ==
  /\ ~JSONParse(text).ok
  /\ ~JSONParse(SecondFix(text)).ok
  /\ ~JSONParse(RegexFixed(SecondFix(text))).ok
  /\ \/ LastIndexOf(SecondFix(text), "{") = 0
     \/ ~JSONParse(PartialJson(SecondFix(text))).ok

\* neither regular-expression tier extracts a non-empty value
NothingExtracted(text) ==
  \A r \in Keys : CompleteTask(text, r) = "" /\ extractIncompleteTask(text, r) = ""

\* C4: if no parse attempt succeeds and neither regular-expression tier
\* extracts a non-empty value for any of R1..R4, generateTasks throws and
\* returns nothing; the only values it ever leaves in tasks without a parse are
\* the texts the regular expressions captured, never a default.
C4_FailureSurfaced ==
  /\ (Finished /\ NoParseSucceeds(FirstAttemptText(content))
        /\ NothingExtracted(FirstAttemptText(content))) =>
       /\ pc = "thrown"
       /\ error.kind # "none"
       /\ returned = Undefined
       /\ tasks = Undefined \/ \A r \in Keys : Member(tasks, r) = JStr("")
  /\ (pc = "returned" /\ tier \notin ParseTiers) =>
       /\ \E r \in Keys : Member(returned, r) # JStr("")
       /\ \A r \in Keys :
            Member(returned, r) \in {JStr(CompleteTask(cleaned, r)),
                                     JStr(extractIncompleteTask(cleaned, r))}

C4_Witness ==
  /\ pc = "thrown"
  /\ error.kind = "ParseFailed"
  /\ tier = "none"
  /\ content # ""
  /\ returned = Undefined

\* C5: whenever fewer than 2 of the 4 fields are usable (present, trimmed
\* length >= 5, none of 'idle', 'not assigned', 'no task' in any case),
\* generateTasks returns no field map, and the invalid-task-structure error it
\* throws names exactly the keys that are not usable, in the order R1..R4.
C5_MinimumFields ==
  /\ pc = "returned" => Cardinality(UsableKeys(returned)) >= 2
  /\ (Finished /\ tier # "none" /\ Cardinality(UsableKeys(tasks)) < 2) =>
       pc = "thrown" /\ returned = Undefined
  /\ error.kind = "InvalidTaskStructure" =>
       /\ error.missing = InOrder(Keys \ UsableKeys(tasks))
       /\ error.count = Cardinality(UsableKeys(tasks))
       /\ error.count < 2

C5_Witness ==
  /\ pc = "thrown"
  /\ error.kind = "InvalidTaskStructure"
  /\ error.missing = <<"R1", "R3", "R4">>
  /\ UsableKeys(tasks) = {"R2"}

\* the last usable field of a field map
LastUsable(t) ==
  Member(t, InOrder(UsableKeys(t))[Cardinality(UsableKeys(t))]).s

\* the last usable field holds Path: and no closing ]]
CutInPath(t) ==
  /\ UsableKeys(t) # {}
  /\ Includes(LastUsable(t), "Path:")
  /\ ~Includes(LastUsable(t), "]]")

\* C6 (as claimed): when the last usable field holds Path: without a closing
\* ]], recovery still returns the field map with the fragment in it.
C6_TruncationNonFatal ==
  (Finished /\ tier # "none" /\ CutInPath(tasks)
     /\ Cardinality(UsableKeys(tasks)) >= MinimumTasks) =>
    pc = "returned" /\ returned = tasks

\* C6 (amended): when the last usable field holds Path: (in this case of
\* letters) without a closing ]], generateTasks throws the truncation error,
\* which reports the number of usable fields, and returns no field map.
C6_TruncationThrows ==
  (Finished /\ tier # "none" /\ CutInPath(tasks)) =>
    /\ pc = "thrown"
    /\ error.kind = "Truncated"
    /\ error.count = Cardinality(UsableKeys(tasks))
    /\ returned = Undefined

C6_Witness ==
  /\ pc = "thrown"
  /\ error.kind = "Truncated"
  /\ tier = "parse4"
  /\ Member(tasks, "R4") = JStr("Go. Path: [[0,0],[0,1")
  /\ Cardinality(UsableKeys(tasks)) >= 2

\* the text the first quote state machine is given
ScanInput(c) ==
  FixControlCharacters(RemoveConcatenation(ExtractEnvelope(StripFences(c))))

\* the number of backslashes in a text
Backslashes(s) == CountOf(s, BS)

\* C11: the first quote state machine applied to its own output returns that
\* output unchanged; a quote that already follows a backslash is copied with
\* its backslash and gains no second one.
C11_QuotePassIdempotent ==
  pc = "cleanup" =>
    /\ QuoteScan(cleaned, ScanStart, TRUE) = cleaned
    /\ Backslashes(QuoteScan(cleaned, ScanStart, TRUE)) = Backslashes(cleaned)

\* the machine has escaped a quote of a text that held escaped quotes already
C11_Witness ==
  /\ pc = "cleanup"
  /\ Includes(ScanInput(content), "\\\"")
  /\ Backslashes(cleaned) > Backslashes(ScanInput(content))

\* the keys of an object
KeysOf(v) == {v.m[j].key : j \in 1..Len(v.m)}

\* C12 (as claimed): every field map generateTasks returns has no keys other
\* than R1, R2, R3, R4.  The function violates it: the value of JSON.parse
\* (lines 639, 741, 756, 792) is validated field by field (lines 858-868) and
\* returned as it is (line 894), with every other key the response held.
C12_OnlySchemaKeys ==
  pc = "returned" => returned.k = "object" /\ KeysOf(returned) \subseteq Keys

\* the length of the longest text the scan is given on its own
MaxScanLen == 4

\* the characters the scan tells apart: the quote, the backslash, the colon
\* that opens a value, the comma that closes one, and any other character
ScanAlphabet == {DQ, BS, ":", ",", "a"}

RECURSIVE TextsOfLen(_)
TextsOfLen(n) ==
  IF n = 0 THEN {""} ELSE {t \o c : t \in TextsOfLen(n - 1), c \in ScanAlphabet}

ScanTexts == UNION {TextsOfLen(n) : n \in 1..MaxScanLen}

\* generateTasks at the head of the scan (line 553), for the response texts
\* of ScanTexts
InitScan ==
  /\ RetryIdle
  /\ PathIdle
  /\ GraphIdle
  /\ EvalIdle
  /\ CellsIdle
  /\ RobotsIdle
  /\ FormatIdle
  /\ RunnerIdle
  /\ content \in ScanTexts
  /\ cleaned = ScanInput(content)
  /\ fixedJson = ""
  /\ inStringValue = FALSE
  /\ escapeNext = FALSE
  /\ i = 0
  /\ secondFixed = ""
  /\ tasks = Undefined
  /\ tier = "none"
  /\ missingRobots = <<>>
  /\ validTasks = <<>>
  /\ error = NoError
  /\ returned = Undefined
  /\ pc = "scan"

NextScan ==
  \/ ScanStep
  \/ ScanEnd

\* The scan is a synchronous loop: an iteration that is possible is run.
SpecScan == InitScan /\ [][NextScan]_vars /\ WF_vars(NextScan)

\* the step has consumed the character at i: copied it, or written it as an
\* escaped quote
ConsumedOne ==
  /\ i' = i + 1
  /\ \/ fixedJson' = fixedJson \o At(cleaned, i + 1)
     \/ At(cleaned, i + 1) = DQ /\ fixedJson' = fixedJson \o "\\\""

\* every iteration of the scan consumes one character
StepConsumesOne == [][pc = "scan" /\ i < Len(cleaned) => ConsumedOne]_vars

\* the scan is left with as many iterations made as the text has characters
EndsAtLength == [][pc = "scan" /\ pc' # "scan" => i = Len(cleaned)]_vars

\* C17: every step of the first quote scan consumes exactly one character of
\* its input, whatever it does with it, and the scan ends when the steps taken
\* are as many as the input has characters; it always ends.
C17_ScanTerminates ==
  /\ StepConsumesOne
  /\ EndsAtLength
  /\ (pc = "scan") ~> (pc = "cleanup")

\* the scan at its end, after a step that escaped a quote
C17_Witness ==
  /\ pc = "scan"
  /\ i = Len(cleaned)
  /\ i > 0
  /\ Len(fixedJson) > i

\* the quote at 0-based index q of text is followed, after optional white
\* space, by a quoted schema key and a colon
FollowedByKey(text, q) ==
  \E k \in Keys :
    /\ StartsAt(text, SkipWs(text, q + 2), DQ \o k \o DQ)
    /\ At(text, SkipWs(text, SkipWs(text, q + 2) + Len(k) + 2)) = ":"

\* C18: inside a string value, a quote followed (after optional white space)
\* by a quoted schema key and a colon, such as "R2":, closes the value, also
\* without a comma before the key.
C18_NextKeyCloses ==
  [][/\ pc = "scan"
     /\ i < Len(cleaned)
     /\ inStringValue
     /\ ~escapeNext
     /\ At(cleaned, i + 1) = DQ
     /\ FollowedByKey(cleaned, i)
     => ~inStringValue' /\ fixedJson' = fixedJson \o DQ]_vars

\* the quote at 0-based index q of text is followed, after optional spaces
\* and tabs, by a line break
FollowedByLineBreak(text, q) ==
  At(text, SkipSet(text, q + 2, {" ", TAB})) \in LineBreaks

\* C19: inside a string value, a quote followed (after optional spaces or
\* tabs) by a line break closes the value, whatever comes after the line
\* break.
C19_LineBreakCloses ==
  [][/\ pc = "scan"
     /\ i < Len(cleaned)
     /\ inStringValue
     /\ ~escapeNext
     /\ At(cleaned, i + 1) = DQ
     /\ FollowedByLineBreak(cleaned, i)
     => ~inStringValue' /\ fixedJson' = fixedJson \o DQ]_vars

\* the last usable field, lastTask of line 872
LastTask == validTasks[Len(validTasks)]

\* C20: by the length rule a last usable field is flagged as truncated only
\* if it is longer than 300 characters and ends on neither a quote nor a
\* closing bracket; a longer value that ends with ]] is accepted.
C20_LengthRule ==
  /\ pc = "thrown"
  /\ error.kind = "Truncated"
  /\ ~(Includes(LastTask, "Path:") /\ ~Includes(LastTask, "]]"))
  => /\ Len(LastTask) > TruncationLength
     /\ At(LastTask, Len(LastTask)) \notin {DQ, "]"}

\* the number of opening braces less the number of closing braces among
\* positions a..b
BraceDepth(s, a, b) ==
  Cardinality({j \in a..b : At(s, j) = "{"})
    - Cardinality({j \in a..b : At(s, j) = "}"})

\* the positions behind the first opening brace at which the depth is zero
DepthZero(s) ==
  {e \in IndexOf(s, "{", 1)..Len(s) : BraceDepth(s, IndexOf(s, "{", 1), e) = 0}

\* C21: the envelope is the text from the first opening brace to the closing
\* brace at which the brace depth first returns to zero; what follows that
\* brace is left out, further braces included.
C21_EnvelopeByDepth ==
  /\ pc = "concat"
  /\ IndexOf(StripFences(content), "{", 1) > 0
  /\ DepthZero(StripFences(content)) # {}
  => cleaned = Sub(StripFences(content), IndexOf(StripFences(content), "{", 1),
                   MinOf(DepthZero(StripFences(content))))

\* C22: one application of the control-character pass (lines 534-544) escapes
\* every raw line feed, carriage return and tab inside a string value, so the
\* pass applied to its own output changes nothing.
C22_ControlPassIdempotent ==
  pc = "scan" /\ i = 0 => FixControlCharacters(cleaned) = cleaned

\* the text of the only usable field of a value with one usable field
OnlyUsable(t) == Member(t, CHOOSE r \in UsableKeys(t) : TRUE).s

\* C29: when the parsed value has one usable field, which is detected as
\* truncated, generateTasks raises the truncation error and not the one for
\* too few fields; when it has no usable field the truncation check is
\* skipped and the error for too few fields is raised.
C29_TruncationFirst ==
  Finished /\ tier # "none" =>
    /\ Cardinality(UsableKeys(tasks)) = 1 /\ IsTruncated(OnlyUsable(tasks))
         => pc = "thrown" /\ error.kind = "Truncated"
    /\ UsableKeys(tasks) = {}
         => pc = "thrown" /\ error.kind = "InvalidTaskStructure"

(***************************************************************************)
(* The retry loop of GeminiProvider.generateTasks (lines 398-514).         *)
(***************************************************************************)
maxRetries == 3
retryableStatuses == {503, 429, 500, 502, 504}

\* the statuses the service answers with
Statuses == {200, 400, 404} \cup retryableStatuses

\* String(response.status)
StatusString(s) ==
  CASE s = 200 -> "200" [] s = 400 -> "400" [] s = 404 -> "404"
    [] s = 429 -> "429" [] s = 500 -> "500" [] s = 502 -> "502"
    [] s = 503 -> "503" [] s = 504 -> "504"

\* response.statusText
StatusText(s) ==
  CASE s = 200 -> "OK" [] s = 400 -> "Bad Request" [] s = 404 -> "Not Found"
    [] s = 429 -> "Too Many Requests" [] s = 500 -> "Internal Server Error"
    [] s = 502 -> "Bad Gateway" [] s = 503 -> "Service Unavailable"
    [] s = 504 -> "Gateway Timeout"

\* error.message of the body of an error response; the empty text for a body
\* that is no JSON or holds no message
BodyMessages ==
  {"", "The model is overloaded", "models/gemini-pro is not found",
   "quota exceeded", "upstream returned 503"}

\* the messages of the errors fetch rejects with
NetworkErrors == {"fetch failed", "Service Unavailable"}

\* the responses a fetch resolves to
Responses ==
  { [status |-> s, message |-> m, bodyUsed |-> FALSE] :
      s \in Statuses \ {200}, m \in BodyMessages }
  \cup { [status |-> 200, message |-> "", bodyUsed |-> FALSE] }

\* response.ok
Ok(r) == r.status >= 200 /\ r.status <= 299

\* lines 464-465: response.json() rejects for a body read before (line 436)
\* and for a body that is no JSON, and the fallback object takes its place
ErrorMessageOf(r) ==
  IF ~r.bodyUsed /\ r.message # ""
    THEN r.message
    ELSE "HTTP " \o StatusString(r.status) \o ": " \o StatusText(r.status)

\* a backoff that grows by a second with each attempt
delayLinear(n) == (n + 1) * 1000

\* lines 470 and 499: Math.pow(2, attempt) * 1000
delay(n) == (2 ^ n) * 1000

\* lines 485-492
isRetryable(message) ==
  \E t \in {"503", "429", "500", "502", "504", "Service Unavailable"} :
    Includes(message, t)

\* lines 476-480: the error thrown for a response that is not retried
ErrorFor(errorMessage) ==
  IF \E t \in {"quota", "billing", "API_KEY_INVALID"} : Includes(errorMessage, t)
    THEN "Gemini API error: " \o errorMessage
           \o ". Please check your API key at https://aistudio.google.com/apikey"
    ELSE "Gemini API error: " \o errorMessage

\* generateTasks at the head of the loop
InitRetry ==
  /\ PathIdle
  /\ GraphIdle
  /\ EvalIdle
  /\ CellsIdle
  /\ RobotsIdle
  /\ FormatIdle
  /\ RunnerIdle
  /\ content = ""
  /\ cleaned = ""
  /\ fixedJson = ""
  /\ inStringValue = FALSE
  /\ escapeNext = FALSE
  /\ i = 0
  /\ secondFixed = ""
  /\ tasks = Undefined
  /\ tier = "none"
  /\ missingRobots = <<>>
  /\ validTasks = <<>>
  /\ error = NoError
  /\ returned = Undefined
  /\ pc = "idle"
  /\ attempt = 0
  /\ lastError = "null"
  /\ successfulResponse = NoResponse
  /\ response = NoResponse
  /\ caught = "null"
  /\ delays = <<>>
  /\ retryError = "null"
  /\ rpc = "fetch"

\* lines 404-423: the request to the v1beta API
FetchBeta ==
  /\ rpc = "fetch"
  /\ \/ \E m \in NetworkErrors :
          /\ caught' = m
          /\ rpc' = "catch"
          /\ UNCHANGED response
     \/ \E r \in Responses :
          /\ response' = r
          /\ rpc' = "fallback"
          /\ UNCHANGED caught
  /\ UNCHANGED <<attempt, lastError, successfulResponse, delays, retryError>>
  /\ UNCHANGED <<recoveryVars, pathVars, graphVars, evalVars, cellVars, robotVars, formatVars, runnerVars>>

\* lines 426-452: the body of a failed response is read, and the v1 API is
\* asked if the model was not found
FetchV1 ==
  /\ rpc = "fallback"
  /\ IF ~Ok(response)
          /\ (Includes(response.message, "not found") \/ response.status = 404)
       THEN \/ \E m \in NetworkErrors :
                 /\ caught' = m
                 /\ rpc' = "catch"
                 /\ response' = [response EXCEPT !.bodyUsed = TRUE]
            \/ \E r \in Responses :
                 /\ response' = r
                 /\ rpc' = "check"
                 /\ UNCHANGED caught
       ELSE /\ response' = [response EXCEPT !.bodyUsed = ~Ok(response)]
            /\ rpc' = "check"
            /\ UNCHANGED caught
  /\ UNCHANGED <<attempt, lastError, successfulResponse, delays, retryError>>
  /\ UNCHANGED <<recoveryVars, pathVars, graphVars, evalVars, cellVars, robotVars, formatVars, runnerVars>>

\* lines 455-459: a successful response is stored and the loop left
StoreResponse ==
  /\ rpc = "check"
  /\ Ok(response)
  /\ successfulResponse' = response
  /\ rpc' = "afterLoop"
  /\ UNCHANGED <<attempt, lastError, response, caught, delays, retryError>>
  /\ UNCHANGED <<recoveryVars, pathVars, graphVars, evalVars, cellVars, robotVars, formatVars, runnerVars>>

\* lines 462-481: a failed response is retried after the delay if its status
\* is retryable and attempts remain; otherwise its error is thrown, into the
\* catch clause of the same iteration
HandleErrorResponse ==
  /\ rpc = "check"
  /\ ~Ok(response)
  /\ IF response.status \in retryableStatuses /\ attempt < maxRetries
       THEN /\ delays' = Append(delays, delay(attempt))
            /\ lastError' = "Gemini API error: " \o ErrorMessageOf(response)
            /\ attempt' = attempt + 1
            /\ rpc' = "fetch"
            /\ UNCHANGED caught
       ELSE /\ caught' = ErrorFor(ErrorMessageOf(response))
            /\ rpc' = "catch"
            /\ UNCHANGED <<attempt, lastError, delays>>
  /\ UNCHANGED <<successfulResponse, response, retryError>>
  /\ UNCHANGED <<recoveryVars, pathVars, graphVars, evalVars, cellVars, robotVars, formatVars, runnerVars>>

\* lines 483-502: the catch clause
CatchError ==
  /\ rpc = "catch"
  /\ IF attempt = maxRetries \/ ~isRetryable(caught)
       THEN /\ retryError' = caught
            /\ rpc' = "thrown"
            /\ UNCHANGED <<attempt, lastError, delays>>
       ELSE /\ lastError' = caught
            /\ delays' = Append(delays, delay(attempt))
            /\ attempt' = attempt + 1
            /\ rpc' = "fetch"
            /\ UNCHANGED retryError
  /\ UNCHANGED <<successfulResponse, response, caught>>
  /\ UNCHANGED <<recoveryVars, pathVars, graphVars, evalVars, cellVars, robotVars, formatVars, runnerVars>>

\* lines 505-514: behind the loop
AfterLoop ==
  /\ rpc = "afterLoop"
  /\ IF lastError # "null"
       THEN retryError' = lastError /\ rpc' = "thrown"
       ELSE IF successfulResponse = NoResponse
         THEN /\ retryError' = "Gemini API request failed after all retries"
              /\ rpc' = "thrown"
         ELSE /\ rpc' = "readContent"
              /\ UNCHANGED retryError
  /\ UNCHANGED <<attempt, lastError, successfulResponse, response, caught, delays>>
  /\ UNCHANGED <<recoveryVars, pathVars, graphVars, evalVars, cellVars, robotVars, formatVars, runnerVars>>

NextRetry ==
  \/ FetchBeta
  \/ FetchV1
  \/ StoreResponse
  \/ HandleErrorResponse
  \/ CatchError
  \/ AfterLoop

SpecRetry == InitRetry /\ [][NextRetry]_vars

\* an earlier attempt failed with a retryable status and was retried
RetriedAfterStatus ==
  \E s \in retryableStatuses :
    lastError = "Gemini API error: HTTP " \o StatusString(s) \o ": " \o StatusText(s)

\* C7 (as claimed): once an attempt has failed with a retryable status and a
\* later attempt within the limit has returned a successful response,
\* generateTasks reads that response and does not throw the error of the
\* earlier attempt.  The loop violates it: lastError is never cleared, so the
\* test behind the loop (line 506) throws it although successfulResponse is
\* set.
C7_RetryReachesSuccess ==
  (RetriedAfterStatus /\ Ok(successfulResponse)) => rpc # "thrown"

\* The steps of the loop are continuations of the event loop: a request, a
\* timer or a body that has settled is followed by the code behind its await,
\* so a step that is possible is eventually taken.
SpecRetryLive == SpecRetry /\ WF_vars(NextRetry)

\* generateTasks has left the retry loop: it throws, or goes on to read the
\* content of the response
RetryLeft == rpc \in {"thrown", "readContent"}

\* C16: the loop makes at most 4 attempts (attempt counts 0..3), the waits
\* before the first, second and third retry are 1000, 2000 and 4000 ms, and
\* the loop always terminates.
C16_BoundedBackoff ==
  /\ [](/\ attempt + 1 <= 4
        /\ Len(delays) = attempt
        /\ \A k \in 1..Len(delays) : delays[k] = <<1000, 2000, 4000>>[k])
  /\ <>RetryLeft

\* all three retries were made and waited for
C16_Witness ==
  /\ RetryLeft
  /\ attempt = 3
  /\ delays = <<1000, 2000, 4000>>

\* the catch clause holds the error thrown for a response whose status is not
\* in the list of line 400
CaughtUnlistedStatus ==
  /\ rpc = "catch"
  /\ response # NoResponse
  /\ ~Ok(response)
  /\ response.status \notin retryableStatuses
  /\ caught = ErrorFor(ErrorMessageOf(response))

BracketCount(s, a, b) ==
  Cardinality({j \in a..b : At(s, j) = "["})
    - Cardinality({j \in a..b : At(s, j) = "]"})

\* lines 181-197 and 204-215: the position at which the brackets opened from
\* position a on are all closed; 0 if the text ends before
BalancedEnd(s, a) ==
  LET M == {e \in a..Len(s) : BracketCount(s, a, e) = 0}
  IN IF M = {} THEN 0 ELSE MinOf(M)

\* line 178: /path:\s*(\[\[[\s\S]*)/i, the position of the leftmost match; 0
\* without one
PathLabelAt(s) ==
  LET M == {k \in 1..Len(s) :
              /\ ToLowerCase(Sub(s, k, k + 4)) = "path:"
              /\ StartsAt(s, SkipWs(s, k + 5), "[[")}
  IN IF M = {} THEN 0 ELSE MinOf(M)

\* line 230
RemoveCommaSpace(s) == ReplaceAll([j \in 1..Len(s) |-> CommaSpaceAt(s, j)], s)

\* line 231: the white space around the bracket x removed
TightenBracket(s, x) ==
  ReplaceAll([j \in 1..Len(s) |-> AroundBracketAt(s, j, x)], s)

\* lines 230-231
CleanPathStr(s) == TightenBracket(TightenBracket(RemoveCommaSpace(s), "["), "]")

\* line 236: /\[(\d+)\s*,\s*(\d+)\]/ at position k: the position behind the
\* match and the two numbers; next is 0 without a match
CoordAt(s, k) ==
  IF /\ At(s, k) = "["
     /\ SkipSet(s, k + 1, Digits) > k + 1
     /\ At(s, SkipWs(s, SkipSet(s, k + 1, Digits))) = ","
     /\ SkipSet(s, SkipWs(s, SkipWs(s, SkipSet(s, k + 1, Digits)) + 1), Digits)
          > SkipWs(s, SkipWs(s, SkipSet(s, k + 1, Digits)) + 1)
     /\ At(s, SkipSet(s, SkipWs(s, SkipWs(s, SkipSet(s, k + 1, Digits)) + 1), Digits))
          = "]"
    THEN [next |-> SkipSet(s, SkipWs(s, SkipWs(s, SkipSet(s, k + 1, Digits)) + 1),
                           Digits) + 1,
          row |-> DigitsValue(s, k + 1, SkipSet(s, k + 1, Digits) - 1),
          col |-> DigitsValue(s,
                    SkipWs(s, SkipWs(s, SkipSet(s, k + 1, Digits)) + 1),
                    SkipSet(s, SkipWs(s, SkipWs(s, SkipSet(s, k + 1, Digits)) + 1),
                            Digits) - 1)]
    ELSE [next |-> 0, row |-> 0, col |-> 0]

RECURSIVE CoordsFrom(_, _)
\* lines 236-240: the coordinates of pathStr.matchAll, from position k on
CoordsFrom(s, k) ==
  LET M == {j \in k..Len(s) : CoordAt(s, j).next > 0}
  IN IF M = {} THEN <<>>
     ELSE <<JArr(<<JNum(CoordAt(s, MinOf(M)).row), JNum(CoordAt(s, MinOf(M)).col)>>)>>
            \o CoordsFrom(s, CoordAt(s, MinOf(M)).next)

\* Number(text) for the texts met here: white space trimmed, the empty text 0,
\* an optionally signed run of digits its value, anything else NaN
StringToNumber(t) ==
  LET u == Trim(t)
      d == IF At(u, 1) \in {"-", "+"} THEN 2 ELSE 1
  IN IF u = "" THEN JNum(0)
     ELSE IF d <= Len(u) /\ SkipSet(u, d, Digits) > Len(u)
       THEN JNum(IF At(u, 1) = "-" THEN 0 - DigitsValue(u, d, Len(u))
                                   ELSE DigitsValue(u, d, Len(u)))
     ELSE NaN

RECURSIVE NumberOf(_)
\* Number(v): an array is converted through its text, which for one element
\* is the text of the element (empty for null) and for more holds a comma
NumberOf(v) ==
  CASE v.k = "number" -> v
    [] v.k = "string" -> StringToNumber(v.s)
    [] v.k = "true" -> JNum(1)
    [] v.k \in {"false", "null"} -> JNum(0)
    [] v.k = "array" ->
         IF Len(v.a) = 0 THEN JNum(0)
         ELSE IF Len(v.a) > 1 THEN NaN
         ELSE IF v.a[1].k \in {"null", "undefined"} THEN JNum(0)
         ELSE IF v.a[1].k \in {"number", "string", "array"} THEN NumberOf(v.a[1])
         ELSE NaN
    [] OTHER -> NaN

\* lines 251-256: the callback of parsed.map
ToPair(item) ==
  IF item.k = "array" /\ Len(item.a) >= 2
    THEN JArr(<<NumberOf(item.a[1]), NumberOf(item.a[2])>>)
    ELSE JLit("null")

\* lines 251-256
MapPairs(items) ==
  SelectSeq([j \in 1..Len(items) |-> ToPair(items[j])], LAMBDA x : x.k # "null")

\* lines 263-265: the pair names a cell of the grid that holds 'S'
OnObstacle(grid, pair) ==
  /\ pair.a[1].k = "number" /\ pair.a[2].k = "number"
  /\ pair.a[1].n >= 0 /\ pair.a[1].n < Len(grid)
  /\ pair.a[2].n >= 0 /\ pair.a[2].n < Len(grid[pair.a[1].n + 1])
  /\ grid[pair.a[1].n + 1][pair.a[2].n + 1] = "S"

\* filteredResult that tests the cell with row and column exchanged
filteredTransposed(grid, pairs) ==
  SelectSeq(pairs, LAMBDA x : ~OnObstacle(grid, JArr(<<x.a[2], x.a[1]>>)))

\* lines 261-269
filteredResult(grid, pairs) ==
  SelectSeq(pairs, LAMBDA x : ~OnObstacle(grid, x))

\* the rows and columns of the grids of the model
GridRows == 2
GridCols == 2

\* scenarioGrid: every grid of that size over an empty cell and a shelf, the
\* empty grid that stands in for a scenario without one, and no grid at all
Grids ==
  { [given |-> TRUE, grid |-> g] :
      g \in [1..GridRows -> [1..GridCols -> {".", "S"}]] \cup {<<>>} }
  \cup { [given |-> FALSE, grid |-> <<>>] }

\* robot commands as the workflow leaves them in robotCommands
Commands ==
  { "Move to dock. Path: [[0,0],[0,1],[1,1]]",
    "path: [[0,0],[0,[1,1]]]",
    "Go [[1,0], [1,1]] then stop",
    "Path: [[0,0],[0,1",
    "Wait here",
    "",
    "PATH:  [[0,1],[5,5]]",
    "Path: [[0,0],[0,1],]",
    "Path: [[0,0],[1],[1,1]]",
    "Path: [[0,0],\"x\",[1,0]]",
    "Path: [[\"1\",\"0\"],[0,1,9]]",
    "Path: [[-1,0],[1,1]]",
    "Path: [[a,b]]",
    "Path: [[0,\f1],[1,1]]",
    "Path: [[]]",
    "Path: [[null,true],[0,0]]",
    "Use [[1,1",
    "Route [0] Path: [[1,1],[0,0]] or [[0,1]]" }

\* a call of extractPath
InitPath ==
  /\ RetryIdle
  /\ GraphIdle
  /\ EvalIdle
  /\ CellsIdle
  /\ RobotsIdle
  /\ FormatIdle
  /\ RunnerIdle
  /\ content = ""
  /\ cleaned = ""
  /\ fixedJson = ""
  /\ inStringValue = FALSE
  /\ escapeNext = FALSE
  /\ i = 0
  /\ secondFixed = ""
  /\ tasks = Undefined
  /\ tier = "none"
  /\ missingRobots = <<>>
  /\ validTasks = <<>>
  /\ error = NoError
  /\ returned = Undefined
  /\ pc = "idle"
  /\ command \in Commands
  /\ scenarioGrid \in Grids
  /\ pathStr = ""
  /\ parsed = Undefined
  /\ result = <<>>
  /\ extracted = Undefined
  /\ ppc = "pattern1"

\* lines 172-198: the label Path: followed by [[, and the text up to the
\* bracket that closes it
Pattern1 ==
  /\ ppc = "pattern1"
  /\ IF command = ""
       THEN ppc' = "returned" /\ UNCHANGED pathStr
       ELSE IF PathLabelAt(command) > 0
                 /\ BalancedEnd(command, SkipWs(command, PathLabelAt(command) + 5)) > 0
         THEN /\ pathStr' = Sub(command, SkipWs(command, PathLabelAt(command) + 5),
                                BalancedEnd(command,
                                  SkipWs(command, PathLabelAt(command) + 5)))
              /\ ppc' = "parse"
         ELSE ppc' = "pattern2" /\ UNCHANGED pathStr
  /\ UNCHANGED <<command, scenarioGrid, parsed, result, extracted>>
  /\ UNCHANGED <<recoveryVars, retryVars, graphVars, evalVars, cellVars, robotVars, formatVars, runnerVars>>

\* lines 201-217: the first [[ of the command
Pattern2 ==
  /\ ppc = "pattern2"
  /\ IF IndexOf(command, "[[", 1) > 0
          /\ BalancedEnd(command, IndexOf(command, "[[", 1)) > 0
       THEN /\ pathStr' = Sub(command, IndexOf(command, "[[", 1),
                              BalancedEnd(command, IndexOf(command, "[[", 1)))
            /\ ppc' = "parse"
       ELSE ppc' = "returned" /\ UNCHANGED pathStr
  /\ UNCHANGED <<command, scenarioGrid, parsed, result, extracted>>
  /\ UNCHANGED <<recoveryVars, retryVars, graphVars, evalVars, cellVars, robotVars, formatVars, runnerVars>>

\* lines 219-247: JSON.parse of the text, of the text cleaned, and the
\* coordinates matched one by one; parseErr, thrown without any, is caught at
\* line 282 and undefined returned
ParsePath ==
  /\ ppc = "parse"
  /\ IF JSONParse(Trim(pathStr)).ok
       THEN /\ parsed' = JSONParse(Trim(pathStr)).v
            /\ pathStr' = Trim(pathStr)
            /\ ppc' = "map"
       ELSE /\ pathStr' = CleanPathStr(Trim(pathStr))
            /\ IF JSONParse(CleanPathStr(Trim(pathStr))).ok
                 THEN /\ parsed' = JSONParse(CleanPathStr(Trim(pathStr))).v
                      /\ ppc' = "map"
                 ELSE IF CoordsFrom(CleanPathStr(Trim(pathStr)), 1) # <<>>
                   THEN /\ parsed' = JArr(CoordsFrom(CleanPathStr(Trim(pathStr)), 1))
                        /\ ppc' = "map"
                   ELSE /\ ppc' = "returned"
                        /\ UNCHANGED parsed
  /\ UNCHANGED <<command, scenarioGrid, result, extracted>>
  /\ UNCHANGED <<recoveryVars, retryVars, graphVars, evalVars, cellVars, robotVars, formatVars, runnerVars>>

\* lines 250-258
MapResult ==
  /\ ppc = "map"
  /\ IF parsed.k = "array" /\ Len(parsed.a) > 0 /\ MapPairs(parsed.a) # <<>>
       THEN /\ result' = MapPairs(parsed.a)
            /\ ppc' = "filter"
       ELSE /\ ppc' = "returned"
            /\ UNCHANGED result
  /\ UNCHANGED <<command, scenarioGrid, pathStr, parsed, extracted>>
  /\ UNCHANGED <<recoveryVars, retryVars, graphVars, evalVars, cellVars, robotVars, formatVars, runnerVars>>

\* FilterObstacles without the fallback to the unfiltered path
FilterObstaclesNoFallback ==
  /\ ppc = "filter"
  /\ extracted' =
       IF scenarioGrid.given
         THEN JArr(filteredResult(scenarioGrid.grid, result))
         ELSE JArr(result)
  /\ ppc' = "returned"
  /\ UNCHANGED <<command, scenarioGrid, pathStr, parsed, result>>
  /\ UNCHANGED <<recoveryVars, retryVars, graphVars, evalVars, cellVars, robotVars, formatVars, runnerVars>>

\* lines 258-279
FilterObstacles ==
  /\ ppc = "filter"
  /\ extracted' =
       IF scenarioGrid.given
         THEN IF Len(filteredResult(scenarioGrid.grid, result)) > 0
                THEN JArr(filteredResult(scenarioGrid.grid, result))
                ELSE JArr(result)
         ELSE JArr(result)
  /\ ppc' = "returned"
  /\ UNCHANGED <<command, scenarioGrid, pathStr, parsed, result>>
  /\ UNCHANGED <<recoveryVars, retryVars, graphVars, evalVars, cellVars, robotVars, formatVars, runnerVars>>

NextPath ==
  \/ Pattern1
  \/ Pattern2
  \/ ParsePath
  \/ MapResult
  \/ FilterObstacles

SpecPath == InitPath /\ [][NextPath]_vars

(***************************************************************************)
(* Properties of extractPath, checked under SpecPath.                      *)
(***************************************************************************)
\* the pair names a cell inside the grid and that cell is a shelf
IsShelfCell(grid, pair) ==
  /\ pair.a[1].k = "number" /\ pair.a[2].k = "number"
  /\ pair.a[1].n \in 0..(Len(grid) - 1)
  /\ pair.a[2].n \in 0..(Len(grid[pair.a[1].n + 1]) - 1)
  /\ grid[pair.a[1].n + 1][pair.a[2].n + 1] = "S"

\* extractPath has returned, with pairs extracted and a grid supplied
FilterApplied == ppc = "returned" /\ result # <<>> /\ scenarioGrid.given

\* C8: given the extracted pairs and a grid in which at least one pair is not
\* on a shelf cell, extractPath returns exactly the pairs whose cell is not
\* 'S', in their order, each as it was extracted.
C8_ObstacleFilter ==
  (FilterApplied
     /\ \E j \in 1..Len(result) : ~IsShelfCell(scenarioGrid.grid, result[j])) =>
    extracted = JArr(SelectSeq(result,
                       LAMBDA x : ~IsShelfCell(scenarioGrid.grid, x)))

C8_Witness ==
  /\ FilterApplied
  /\ Len(result) = 3
  /\ extracted = JArr(<<result[1], result[3]>>)
  /\ IsShelfCell(scenarioGrid.grid, result[2])

\* C9: if every extracted pair lies on a shelf cell of the grid, extractPath
\* returns the unfiltered sequence, the same pairs in the same order, not an
\* empty or undefined path.
C9_FallbackToUnfiltered ==
  (FilterApplied
     /\ \A j \in 1..Len(result) : IsShelfCell(scenarioGrid.grid, result[j])) =>
    extracted = JArr(result)

C9_Witness ==
  /\ FilterApplied
  /\ Len(result) = 3
  /\ \A j \in 1..Len(result) : IsShelfCell(scenarioGrid.grid, result[j])
  /\ extracted = JArr(result)

\* an element of the outer list that is a pair of two integers
IsIntegerPair(item) ==
  /\ item.k = "array"
  /\ Len(item.a) = 2
  /\ item.a[1].k = "number" /\ item.a[2].k = "number"

\* C10 (as claimed): every element of the outer list that is not a pair of
\* two integers is left out of the result, the well-formed pairs around it are
\* kept in order, and every pair of the result consists of two integers.  The
\* function violates it: an element of two or more entries is always kept,
\* with Number() of its first two entries, so [0,[1,1]] becomes [0, NaN].
C10_MalformedDropped ==
  ppc \in {"filter", "returned"} /\ result # <<>> =>
    /\ result = SelectSeq(parsed.a, IsIntegerPair)
    /\ \A j \in 1..Len(result) : IsIntegerPair(result[j])

(***************************************************************************)
(* The workflow loop executeWarehouseGraph and its conditional edge        *)
(* shouldContinue, as listed in ARCHITECTURE.md (lines 367-372, 477-522).  *)
(* Of the state the control-flow fields iteration, taskComplete and        *)
(* shouldContinue are kept, which no node reads or writes but Node 1, that *)
(* increments iteration (line 257), and robotCommands and executedCommands,*)
(* written by Node 3 (lines 315-323) and Node 4 (lines 334-352).           *)
(***************************************************************************)
\* the largest maxIterations a call is given
MaxMaxIterations == 12

\* line 368: the iteration at which shouldContinue ends the workflow
IterationLimit == 10

\* lines 367-372
shouldContinue(st) ==
  IF st.taskComplete \/ st.iteration >= IterationLimit THEN "end" ELSE "continue"

\* line 492: the condition of the while loop
LoopCondition ==
  state.shouldContinue /\ state.iteration < maxIterations /\ ~state.taskComplete

\* what generateTasks returns: a RobotTasks object, in which a robot may be
\* missing or have an empty text
LlmResponses ==
  { [R1 |-> "Go to dock", R2 |-> "Scan shelf B", R3 |-> "Check bay 3", R4 |-> "Hold here"],
    [R1 |-> "Charge", R2 |-> "", R3 |-> "Check bay 3", R4 |-> ""],
    [R2 |-> "Scan shelf B"],
    [R1 |-> "", R2 |-> "", R3 |-> "", R4 |-> ""] }

\* lines 315-320: llmResponse.R1 || "" and so on
CommandsOf(llmResponse) ==
  [r \in Keys |-> IF r \in DOMAIN llmResponse THEN llmResponse[r] ELSE ""]

\* a Node 4 that leaves the test of line 340 out: one entry per robot
CommandEntriesUnfiltered(commands) ==
  [k \in 1..Len(robotIds) |-> [robotId |-> robotIds[k], command |-> commands[robotIds[k]]]]

\* lines 337-347: the entries pushed for the robots with a command, in the
\* order of the object literal of lines 315-320
CommandEntries(commands) ==
  SelectSeq(CommandEntriesUnfiltered(commands), LAMBDA e : e.command # "")

\* lines 477-489: a call of executeWarehouseGraph
InitGraph ==
  /\ RecoveryIdle
  /\ RetryIdle
  /\ PathIdle
  /\ EvalIdle
  /\ CellsIdle
  /\ RobotsIdle
  /\ FormatIdle
  /\ RunnerIdle
  /\ state = [iteration |-> 0, taskComplete |-> FALSE, shouldContinue |-> TRUE,
              robotCommands |-> [r \in Keys |-> ""], executedCommands |-> <<>>]
  /\ maxIterations \in 0..MaxMaxIterations
  /\ llmCalls = 0
  /\ llmReturned = <<>>
  /\ continueDecision = "none"
  /\ gpc = "while"

\* line 492: the loop is entered, or left for the return of line 521
WhileTest ==
  /\ gpc = "while"
  /\ gpc' = IF LoopCondition THEN "node1" ELSE "returned"
  /\ UNCHANGED <<state, maxIterations, continueDecision, llmCalls, llmReturned>>
  /\ UNCHANGED <<recoveryVars, retryVars, pathVars, evalVars, cellVars, robotVars, formatVars, runnerVars>>

\* lines 494-495 with line 257: Node 1 increments iteration
processUserCommand ==
  /\ gpc = "node1"
  /\ state' = [state EXCEPT !.iteration = @ + 1]
  /\ gpc' = "node2"
  /\ UNCHANGED <<maxIterations, continueDecision, llmCalls, llmReturned>>
  /\ UNCHANGED <<recoveryVars, retryVars, pathVars, evalVars, cellVars, robotVars, formatVars, runnerVars>>

\* lines 498-499: Node 2 leaves the control-flow fields alone
queryRobotStatus ==
  /\ gpc = "node2"
  /\ gpc' = "node3"
  /\ UNCHANGED <<state, maxIterations, continueDecision, llmCalls, llmReturned>>
  /\ UNCHANGED <<recoveryVars, retryVars, pathVars, evalVars, cellVars, robotVars, formatVars, runnerVars>>

\* lines 502-503 with lines 306-323: Node 3 calls the provider once and keeps
\* the four commands of what it returns
llmReasoningNode ==
  /\ gpc = "node3"
  /\ \E llmResponse \in LlmResponses :
       /\ llmReturned' = llmResponse
       /\ state' = [state EXCEPT !.robotCommands = CommandsOf(llmResponse)]
  /\ llmCalls' = llmCalls + 1
  /\ gpc' = "node4"
  /\ UNCHANGED <<maxIterations, continueDecision>>
  /\ UNCHANGED <<recoveryVars, retryVars, pathVars, evalVars, cellVars, robotVars, formatVars, runnerVars>>

\* lines 506-507 with lines 334-352: Node 4 makes executedCommands anew
executeCommands ==
  /\ gpc = "node4"
  /\ state' = [state EXCEPT !.executedCommands = CommandEntries(state.robotCommands)]
  /\ gpc' = "node5"
  /\ UNCHANGED <<maxIterations, continueDecision, llmCalls, llmReturned>>
  /\ UNCHANGED <<recoveryVars, retryVars, pathVars, evalVars, cellVars, robotVars, formatVars, runnerVars>>

\* lines 510-511: Node 5, likewise
broadcastResponse ==
  /\ gpc = "node5"
  /\ gpc' = "edge"
  /\ UNCHANGED <<state, maxIterations, continueDecision, llmCalls, llmReturned>>
  /\ UNCHANGED <<recoveryVars, retryVars, pathVars, evalVars, cellVars, robotVars, formatVars, runnerVars>>

\* lines 514-518: the conditional edge
ConditionalEdge ==
  /\ gpc = "edge"
  /\ continueDecision' = shouldContinue(state)
  /\ state' = IF shouldContinue(state) = "end"
                THEN [state EXCEPT !.shouldContinue = FALSE, !.taskComplete = TRUE]
                ELSE state
  /\ gpc' = "while"
  /\ UNCHANGED <<maxIterations, llmCalls, llmReturned>>
  /\ UNCHANGED <<recoveryVars, retryVars, pathVars, evalVars, cellVars, robotVars, formatVars, runnerVars>>

NextGraph ==
  \/ WhileTest
  \/ processUserCommand
  \/ queryRobotStatus
  \/ llmReasoningNode
  \/ executeCommands
  \/ broadcastResponse
  \/ ConditionalEdge

SpecGraph == InitGraph /\ [][NextGraph]_vars

\* C13: after Node 5 the workflow ends exactly when taskComplete is true or
\* iteration >= maxIterations, and goes on with Node 1 otherwise, whatever
\* maxIterations is: the step of the conditional edge leaves the condition of
\* the loop false in the first case and true in the second.
C13_ConditionalEdge ==
  [][gpc = "edge" =>
       (~LoopCondition' <=> (state.taskComplete \/ state.iteration >= maxIterations))]_vars

\* no node changes taskComplete
NodesKeepTaskComplete ==
  [][(gpc \in {"node1", "node2", "node3", "node4", "node5"})
       => (state'.taskComplete = state.taskComplete)]_vars

\* executedCommands holds one entry for every robot that has a command which
\* is not empty in what the last generateTasks call returned, with that
\* command, and no other entry
LastCommandsOnly ==
  /\ \A k \in 1..Len(state.executedCommands) :
       /\ state.executedCommands[k].robotId \in DOMAIN llmReturned
       /\ state.executedCommands[k].command = llmReturned[state.executedCommands[k].robotId]
       /\ state.executedCommands[k].command # ""
  /\ \A r \in Keys :
       Cardinality({k \in 1..Len(state.executedCommands) :
                      state.executedCommands[k].robotId = r})
         = IF r \in DOMAIN llmReturned /\ llmReturned[r] # "" THEN 1 ELSE 0

\* a call with maxIterations <= 10 returns after maxIterations calls of the
\* provider, with the commands of the last of them
ReturnsAfterMaxIterations ==
  [](gpc = "returned" /\ maxIterations <= IterationLimit
       => llmCalls = maxIterations /\ LastCommandsOnly)

\* C26: no node sets taskComplete; a call of executeWarehouseGraph with
\* maxIterations <= 10 calls the provider exactly maxIterations times and
\* returns executedCommands with the commands of the last iteration only, one
\* entry per robot whose command is not empty.
C26_NoEarlyExit ==
  /\ NodesKeepTaskComplete
  /\ ReturnsAfterMaxIterations

\* the call of the test-scenarios endpoint (maxIterations = 3) returned after
\* a last iteration in which two robots got a command
C26_Witness ==
  /\ gpc = "returned"
  /\ maxIterations = 3
  /\ llmCalls = 3
  /\ Len(state.executedCommands) = 2
  /\ llmReturned = [R1 |-> "Charge", R2 |-> "", R3 |-> "Check bay 3", R4 |-> ""]

(***************************************************************************)
(* A scenario run of the test-scenarios endpoint (route.ts lines 59-140)   *)
(* and the first criterion of evaluateSafetyCompliance (evaluation.ts      *)
(* lines 126-153).  Of a robot's status only the battery is kept, of the   *)
(* score only the points of that criterion.                                *)
(***************************************************************************)
\* route.ts lines 67-70 and 91: the battery every robot is started with
FullBattery == 100

\* evaluation.ts line 135: the battery below which a robot is critical
CriticalBattery == 20

\* evaluation.ts lines 145 and 151: the points of the criterion
CriticalPoints == 10

\* batteryPercent values of the scenarios' robots (test-scenarios.ts lines
\* 224-245 has 88, 14, 92 and 19)
BatteryLevels == {14, 20, 88}

\* commands the workflow leaves in robotCommands
CommandTexts == {"Move to CHARGING station", "Go recharge at dock", "Scan shelf B", ""}

\* evaluation.ts lines 140-141
SentToCharge(cmd) ==
  Includes(ToLowerCase(cmd), "charge") \/ Includes(ToLowerCase(cmd), "charging")

\* evaluation.ts lines 134-136
criticalRobots(statuses) == {r \in Keys : statuses[r] < CriticalBattery}

\* a scenario is picked (route.ts line 60)
InitEval ==
  /\ RecoveryIdle
  /\ CellsIdle
  /\ RobotsIdle
  /\ FormatIdle
  /\ RunnerIdle
  /\ RetryIdle
  /\ PathIdle
  /\ GraphIdle
  /\ scenario \in [Keys -> BatteryLevels]
  /\ robotStatuses = <<>>
  /\ robotCommands = <<>>
  /\ score = 0
  /\ details = <<>>
  /\ epc = "create"

\* route.ts lines 66-132: the initial state, every battery at 100
CreateInitialState ==
  /\ epc = "create"
  /\ robotStatuses' = [r \in Keys |-> FullBattery]
  /\ robotCommands' = [r \in Keys |-> ""]
  /\ epc' = "graph"
  /\ UNCHANGED <<scenario, score, details>>
  /\ UNCHANGED <<recoveryVars, retryVars, pathVars, graphVars, cellVars, robotVars, formatVars, runnerVars>>

\* route.ts line 135: the workflow; Node 2 returns state.robotStatuses as it
\* is (ARCHITECTURE.md lines 268-277) and Node 3 stores the commands of the
\* language model (lines 315-320)
ExecuteGraph ==
  /\ epc = "graph"
  /\ robotCommands' \in [Keys -> CommandTexts]
  /\ epc' = "evaluate"
  /\ UNCHANGED <<scenario, robotStatuses, score, details>>
  /\ UNCHANGED <<recoveryVars, retryVars, pathVars, graphVars, cellVars, robotVars, formatVars, runnerVars>>

\* evaluation.ts lines 130-153, called from route.ts line 140
evaluateSafetyCompliance ==
  /\ epc = "evaluate"
  /\ IF criticalRobots(robotStatuses) # {}
       THEN IF \E r \in criticalRobots(robotStatuses) : SentToCharge(robotCommands[r])
              THEN /\ score' = score + CriticalPoints
                   /\ details' = Append(details, "Critical robots sent to charging")
              ELSE /\ score' = score
                   /\ details' = Append(details, "Critical robots NOT sent to charging")
       ELSE /\ score' = score + CriticalPoints
            /\ details' = Append(details, "No critical battery levels")
  /\ epc' = "evaluated"
  /\ UNCHANGED <<scenario, robotStatuses, robotCommands>>
  /\ UNCHANGED <<recoveryVars, retryVars, pathVars, graphVars, cellVars, robotVars, formatVars, runnerVars>>

NextEval ==
  \/ CreateInitialState
  \/ ExecuteGraph
  \/ evaluateSafetyCompliance

SpecEval == InitEval /\ [][NextEval]_vars

\* the robots the scenario gives less than 20 percent of battery
ScenarioCritical == {r \in Keys : scenario[r] < CriticalBattery}

\* C14: in a run on a scenario with a robot of batteryPercent < 20, the 10
\* points for critical robots are awarded only if the commands generated
\* for those robots contain 'charge' or 'charging'.
C14_PointsOnlyIfCharging ==
  epc = "evaluated" /\ ScenarioCritical # {} /\ score = CriticalPoints =>
    \A r \in ScenarioCritical : SentToCharge(robotCommands[r])

(***************************************************************************)
(* getPathCells of WarehouseGridVisualization (lines 76-152): the cells    *)
(* highlighted for a task path.  Rows and columns are numbered from 0 as   *)
(* in the source; a cell of pathCells is the pair <<row, col>> that the    *)
(* source writes as the string "row,col".                                  *)
(***************************************************************************)
\* the size of the grids drawn
VisRows == 2
VisCols == 3

\* the number of waypoints of the longest task.path drawn
MaxWaypoints == 2

Abs(x) == IF x < 0 THEN 0 - x ELSE x
Max(x, y) == IF x > y THEN x ELSE y

\* lines 76-83
isObstacle(grid, row, col) ==
  IF row < 0 \/ row >= VisRows THEN FALSE
  ELSE IF col < 0 \/ col >= VisCols THEN FALSE
  ELSE grid[row][col] = "S"

\* lines 109-111: Math.round(a + (b - a) * (step / steps)) for steps > 0, the
\* nearest integer with a half rounded up, and a for steps = 0
Interpolated(a, b, step, steps) ==
  IF steps > 0
    THEN (2 * a * steps + 2 * (b - a) * step + steps) \div (2 * steps)
    ELSE a

\* lines 97-120: findPathBetween([r1, c1], [r2, c2]), the cells in order
findPathBetween(grid, start, end) ==
  LET steps == Max(Abs(end[1] - start[1]), Abs(end[2] - start[2]))
      cell(step) == << Interpolated(start[1], end[1], step, steps),
                       Interpolated(start[2], end[2], step, steps) >>
      Kept(pair) == /\ ~isObstacle(grid, pair[1], pair[2])
                    /\ pair[1] >= 0 /\ pair[1] < VisRows
                    /\ pair[2] >= 0 /\ pair[2] < VisCols
  IN SelectSeq([k \in 1..(steps + 1) |-> cell(k - 1)], Kept)

Cells == (0..(VisRows - 1)) \X (0..(VisCols - 1))

\* task.path: one to MaxWaypoints cells of the grid
Waypoints == UNION { [1..n -> Cells] : n \in 1..MaxWaypoints }

\* a call of getPathCells(robotId) after the guard of lines 88-93
InitCells ==
  /\ RecoveryIdle
  /\ RobotsIdle
  /\ FormatIdle
  /\ RunnerIdle
  /\ RetryIdle
  /\ PathIdle
  /\ GraphIdle
  /\ EvalIdle
  /\ visGrid \in [0..(VisRows - 1) -> [0..(VisCols - 1) -> {".", "S"}]]
  /\ taskPath \in Waypoints
  /\ pathCells = {}
  /\ segment = 0
  /\ vpc = "waypoints"

\* lines 123-130: the waypoints that are not obstacles
AddWaypoints ==
  /\ vpc = "waypoints"
  /\ pathCells' = {taskPath[k] : k \in {j \in 1..Len(taskPath) :
                                          ~isObstacle(visGrid, taskPath[j][1], taskPath[j][2])}}
  /\ vpc' = "interpolate"
  /\ UNCHANGED <<visGrid, taskPath, segment>>
  /\ UNCHANGED <<recoveryVars, retryVars, pathVars, graphVars, evalVars, robotVars, formatVars, runnerVars>>

\* lines 133-149: one iteration of the loop over consecutive waypoints
InterpolateSegment ==
  /\ vpc = "interpolate"
  /\ segment < Len(taskPath) - 1
  /\ LET intermediatePath ==
           findPathBetween(visGrid, taskPath[segment + 1], taskPath[segment + 2])
     IN pathCells' = pathCells \cup
          {intermediatePath[k] : k \in {j \in 1..Len(intermediatePath) :
             ~isObstacle(visGrid, intermediatePath[j][1], intermediatePath[j][2])}}
  /\ segment' = segment + 1
  /\ UNCHANGED <<visGrid, taskPath, vpc>>
  /\ UNCHANGED <<recoveryVars, retryVars, pathVars, graphVars, evalVars, robotVars, formatVars, runnerVars>>

\* line 151: return pathCells
ReturnCells ==
  /\ vpc = "interpolate"
  /\ ~(segment < Len(taskPath) - 1)
  /\ vpc' = "returned"
  /\ UNCHANGED <<visGrid, taskPath, pathCells, segment>>
  /\ UNCHANGED <<recoveryVars, retryVars, pathVars, graphVars, evalVars, robotVars, formatVars, runnerVars>>

NextCells ==
  \/ AddWaypoints
  \/ InterpolateSegment
  \/ ReturnCells

SpecCells == InitCells /\ [][NextCells]_vars

\* two cells that touch by a side or a corner
Adjacent(p, q) == p # q /\ Abs(p[1] - q[1]) <= 1 /\ Abs(p[2] - q[2]) <= 1

\* the cells of a set that a chain of adjacent cells of the set joins to seen
RECURSIVE ReachFrom(_, _)
Grow(cells, seen) == seen \cup {q \in cells : \E p \in seen : Adjacent(p, q)}
ReachNext(cells, seen, next) == IF next = seen THEN seen ELSE ReachFrom(cells, next)
ReachFrom(cells, seen) == ReachNext(cells, seen, Grow(cells, seen))

\* a path of two waypoints, neither of them on a shelf
TraversableSegment ==
  /\ Len(taskPath) = 2
  /\ ~isObstacle(visGrid, taskPath[1][1], taskPath[1][2])
  /\ ~isObstacle(visGrid, taskPath[2][1], taskPath[2][2])

\* C15: for two consecutive traversable waypoints, the highlighted cells hold
\* no shelf cell and join the first waypoint to the second by a chain of
\* adjacent (8-neighbour) cells, also when a shelf lies on the straight line
\* between them.
C15_SegmentChain ==
  vpc = "returned" /\ TraversableSegment =>
    /\ \A p \in pathCells : visGrid[p[1]][p[2]] # "S"
    /\ taskPath[2] \in ReachFrom(pathCells, {taskPath[1]})

(***************************************************************************)
(* RobotOrchestrator and Robot (src/lib/robots.ts).  A RobotTask is kept   *)
(* with the number of the distributeTasks call that made it; currentTask   *)
(* and path are JSON values, null and undefined among them.                *)
(***************************************************************************)
\* the number of distributeTasks calls made on the orchestrator
MaxDistributeCalls == 2

\* line 153: task.match(/path:\s*(\[[\s\S]*?\])/i): the positions at which
\* the pattern matches
PathMatchStarts(task) ==
  {k \in 1..Len(task) :
     /\ ToLowerCase(Sub(task, k, k + 4)) = "path:"
     /\ At(task, SkipWs(task, k + 5)) = "["
     /\ IndexOf(task, "]", SkipWs(task, k + 5) + 1) > 0}

\* pathMatch[1] of the match that starts at k: from the opening bracket to
\* the first closing bracket behind it, the star being lazy
PathGroup(task, k) ==
  Sub(task, SkipWs(task, k + 5), IndexOf(task, "]", SkipWs(task, k + 5) + 1))

\* line 155 within the try block of lines 152-159
ParsedOrUndefined(outcome) == IF outcome.ok THEN outcome.v ELSE Undefined

\* lines 151-159: path
PathOfTask(task) ==
  IF PathMatchStarts(task) = {}
    THEN Undefined
    ELSE ParsedOrUndefined(JSONParse(PathGroup(task, MinOf(PathMatchStarts(task)))))

\* lines 161-168
NewRobotTask(robotId, task, call) ==
  [robotId |-> robotId, robotName |-> "Robot " \o robotId, task |-> task,
   status |-> "pending", path |-> PathOfTask(task), call |-> call]

\* task strings of a RobotTasks object
DistributedTexts ==
  {"", "Go. Path: [[0,0],[0,1]]", "Wait. path: []"}

\* the arguments of distributeTasks, as Object.entries lists them
DistributeInputs ==
  { << <<"R1", t1>>, <<"R2", t2>>, <<"R3", "">>, <<"R4", "Scan shelf B">> >> :
      t1 \in DistributedTexts, t2 \in {"", "Move, path: [[1,2]]"} }
  \cup { << <<"R1", "Scan shelf B">>, <<"R5", "Stand by">> >> }

\* a distribution that leaves lines 145-149 out: every entry gets a RobotTask
ServedAll(given) == given

\* lines 145-149: the entries that get a RobotTask
Served(given) ==
  SelectSeq(given, LAMBDA e : e[2] # "" /\ e[1] \in Keys)

\* lines 113-132: new RobotOrchestrator()
InitRobots ==
  /\ RecoveryIdle
  /\ RetryIdle
  /\ PathIdle
  /\ GraphIdle
  /\ EvalIdle
  /\ CellsIdle
  /\ FormatIdle
  /\ RunnerIdle
  /\ robots = [r \in Keys |-> [status |-> "working", currentTask |-> JLit("null")]]
  /\ robotTasks = <<>>
  /\ executing = {}
  /\ distributed = 0

\* lines 142-181: distributeTasks(tasks), which runs to its return without
\* waiting; each executeTask call runs up to its await (lines 95-103)
distributeTasks ==
  /\ robots # <<>>
  /\ distributed < MaxDistributeCalls
  /\ \E given \in DistributeInputs :
       /\ robotTasks' = robotTasks \o
            [k \in 1..Len(Served(given)) |->
               NewRobotTask(Served(given)[k][1], Served(given)[k][2], distributed + 1)]
       /\ robots' = [r \in Keys |->
            IF \E k \in 1..Len(Served(given)) : Served(given)[k][1] = r
              THEN [status |-> "working",
                    currentTask |-> JStr((CHOOSE e \in {Served(given)[k] : k \in 1..Len(Served(given))} : e[1] = r)[2])]
              ELSE robots[r]]
       /\ executing' = executing \cup
            {Len(robotTasks) + k : k \in 1..Len(Served(given))}
  /\ distributed' = distributed + 1
  /\ UNCHANGED <<recoveryVars, retryVars, pathVars, graphVars, evalVars, cellVars, formatVars, runnerVars>>

\* lines 105-106 and 172-173: the timer of the oldest waiting executeTask call
\* fires (equal delays fire in the order they were set), the call ends and
\* the then-callback runs before any other timer
executeTaskResumes ==
  /\ executing # {}
  /\ robots' = [robots EXCEPT ![robotTasks[MinOf(executing)].robotId] =
                  [status |-> "idle", currentTask |-> JLit("null")]]
  /\ robotTasks' = [robotTasks EXCEPT ![MinOf(executing)].status = "completed"]
  /\ executing' = executing \ {MinOf(executing)}
  /\ UNCHANGED distributed
  /\ UNCHANGED <<recoveryVars, retryVars, pathVars, graphVars, evalVars, cellVars, formatVars, runnerVars>>

NextRobots ==
  \/ distributeTasks
  \/ executeTaskResumes

SpecRobots == InitRobots /\ [][NextRobots]_vars

\* the text of the list behind the label path: of a task string, brackets
\* balanced; "" if the task holds none
PairListText(task) ==
  IF PathLabelAt(task) = 0 \/ BalancedEnd(task, SkipWs(task, PathLabelAt(task) + 5)) = 0
    THEN ""
    ELSE Sub(task, SkipWs(task, PathLabelAt(task) + 5),
             BalancedEnd(task, SkipWs(task, PathLabelAt(task) + 5)))

\* the task string holds a literal path: [[r1,c1],[r2,c2],...]
HoldsPairList(task) ==
  /\ PairListText(task) # ""
  /\ JSONParse(PairListText(task)).ok

\* C24: every RobotTask made from a task string that holds a literal
\* path: [[r1,c1],[r2,c2],...] has that list of pairs as its path.
C24_PathAttached ==
  \A k \in 1..Len(robotTasks) :
    HoldsPairList(robotTasks[k].task)
      => robotTasks[k].path = JSONParse(PairListText(robotTasks[k].task)).v

\* C27: while an executeTask call on a robot is waiting for its timer, the
\* robot's status is "working" and its currentTask is not null, also when two
\* calls on the same robot overlap.
C27_WorkingWhileInFlight ==
  \A k \in executing :
    /\ robots[robotTasks[k].robotId].status = "working"
    /\ robots[robotTasks[k].robotId].currentTask # JLit("null")

\* the executeTask timers fire: a call that waits is resumed
SpecRobotsLive == SpecRobots /\ WF_vars(executeTaskResumes)

\* the RobotTasks a distributeTasks call returns are all pending
ReturnsPending ==
  [][distributeTasks =>
       \A k \in (Len(robotTasks) + 1)..Len(robotTasks') :
         robotTasks'[k].status = "pending"]_vars

\* a RobotTask is pending or completed, belongs to one of R1..R4 with a task
\* string that is not empty, and is the only one of its robot in its call
OnlyPendingOrCompleted ==
  [](\A k \in 1..Len(robotTasks) :
       /\ robotTasks[k].status \in {"pending", "completed"}
       /\ robotTasks[k].robotId \in Keys
       /\ robotTasks[k].task # ""
       /\ \A j \in 1..Len(robotTasks) :
            robotTasks[j].call = robotTasks[k].call
              /\ robotTasks[j].robotId = robotTasks[k].robotId => j = k)

\* a completed RobotTask stays completed
CompletedStays ==
  [][\A k \in 1..Len(robotTasks) :
       robotTasks[k].status = "completed" => robotTasks'[k].status = "completed"]_vars

\* again and again every RobotTask made so far is completed; with
\* CompletedStays, every RobotTask eventually is completed for good
EventuallyCompleted ==
  []<>(\A k \in 1..Len(robotTasks) : robotTasks[k].status = "completed")

\* C28: every RobotTask is pending when distributeTasks returns and later
\* becomes completed; it never is in_progress or failed; only robots R1..R4
\* with a task string that is not empty get a RobotTask, one each per call.
C28_TaskLifecycle ==
  /\ ReturnsPending
  /\ OnlyPendingOrCompleted
  /\ CompletedStays
  /\ EventuallyCompleted

\* both calls made, an entry with an empty string and one with a task in
\* them, and every RobotTask completed
C28_Witness ==
  /\ distributed = MaxDistributeCalls
  /\ Len(robotTasks) > distributed
  /\ \A k \in 1..Len(robotTasks) : robotTasks[k].status = "completed"

(***************************************************************************)
(* formatEnvironmentMatrix (src/ARCHITECTURE.md lines 450-464, the listing *)
(* of the workflow file).  A matrix is a sequence of sequences of cell     *)
(* texts, matrix[x][y] of the code being matrix[x + 1][y + 1] here.        *)
(***************************************************************************)
\* the size of the grids formatted
EnvRows == 2
EnvCols == 3

\* line 460: matrix[x]?.[y] || "."
CellOrDot(m, x, y) ==
  IF x <= Len(m) /\ y <= Len(m[x]) /\ m[x][y] # "" THEN m[x][y] ELSE "."

\* lines 458-461: row, built from index x on
RECURSIVE RowFrom(_, _, _)
RowFrom(m, y, x) ==
  IF x > Len(m) THEN "" ELSE CellOrDot(m, x, y) \o " " \o RowFrom(m, y, x + 1)

\* lines 457-463: what the outer loop appends to output from index y on
RECURSIVE OutputFrom(_, _)
OutputFrom(m, y) ==
  IF y > Len(m[1])
    THEN ""
    ELSE Trim(RowFrom(m, y, 1)) \o NL \o OutputFrom(m, y + 1)

\* lines 451-465
formatEnvironmentMatrix(m) ==
  IF m = <<>>
    THEN "Environment matrix not provided"
    ELSE NL \o OutputFrom(m, 1)

\* the matrices formatted: every row-major grid of EnvRows rows and EnvCols
\* columns over an empty cell, a shelf and an obstacle, a grid with a short
\* second row, and the empty matrix
Matrices ==
  [1..EnvRows -> [1..EnvCols -> {".", "S", "O"}]]
    \cup { << <<"S", "O">>, <<"S">> >>, <<>> }

InitFormat ==
  /\ RecoveryIdle
  /\ RetryIdle
  /\ PathIdle
  /\ GraphIdle
  /\ EvalIdle
  /\ CellsIdle
  /\ RobotsIdle
  /\ RunnerIdle
  /\ matrix \in Matrices
  /\ output = ""
  /\ fpc = "called"

\* a call of formatEnvironmentMatrix(matrix)
FormatMatrix ==
  /\ fpc = "called"
  /\ output' = formatEnvironmentMatrix(matrix)
  /\ fpc' = "returned"
  /\ UNCHANGED matrix
  /\ UNCHANGED <<recoveryVars, retryVars, pathVars, graphVars, evalVars, cellVars, robotVars, runnerVars>>

NextFormat == FormatMatrix

SpecFormat == InitFormat /\ [][NextFormat]_vars

\* the cells of row k of a grid from column c on, one blank between two
RECURSIVE RowLine(_, _, _)
RowLine(grid, k, c) ==
  IF c > Len(grid[k])
    THEN ""
    ELSE grid[k][c] \o (IF c < Len(grid[k]) THEN " " ELSE "") \o RowLine(grid, k, c + 1)

\* one line per row of the grid, from row k on
RECURSIVE RowMajorFrom(_, _)
RowMajorFrom(grid, k) ==
  IF k > Len(grid) THEN "" ELSE RowLine(grid, k, 1) \o NL \o RowMajorFrom(grid, k + 1)

\* every row of the grid has EnvCols cells
Rectangular(grid) ==
  /\ grid # <<>>
  /\ \A k \in 1..Len(grid) : Len(grid[k]) = EnvCols

\* C25: for a row-major grid the text returned holds one line per grid row,
\* the k-th line listing grid[k][0], grid[k][1], ... in column order.
C25_OneLinePerRow ==
  fpc = "returned" /\ Rectangular(matrix)
    => output = NL \o RowMajorFrom(matrix, 1)

(***************************************************************************)
(* The scenario selection of TestScenarioRunner                            *)
(* (src/components/TestScenarioRunner.tsx).  A scenario is kept as its id; *)
(* the builder covers the page (line 714), so the list is used only while  *)
(* it is closed.                                                           *)
(***************************************************************************)
\* the number of custom scenarios kept
MaxCustomScenarios == 2

\* test-scenarios.ts lines 61, 175, 290, 408: the ids of testScenarios
DefaultIds == {"scenario-1", "scenario-2", "scenario-3", "scenario-4"}

\* the ids typed into the Scenario ID field of the builder (lines 779-786)
CustomIds == {"custom-1", "custom-2"}

\* the ids of customScenarios
CustomIdSet == {customScenarios[k] : k \in 1..Len(customScenarios)}

\* line 64-66: the ids of allScenarios
AllScenarioIds == DefaultIds \cup CustomIdSet

\* lines 41-51: the component mounted, customScenarios read from localStorage
InitRunner ==
  /\ RecoveryIdle
  /\ RetryIdle
  /\ PathIdle
  /\ GraphIdle
  /\ EvalIdle
  /\ CellsIdle
  /\ RobotsIdle
  /\ FormatIdle
  /\ selectedScenarios = <<>>
  /\ customScenarios \in {<<>>, <<"custom-1">>}
  /\ showCustomBuilder = FALSE
  /\ editingScenario = <<>>

\* lines 128-134, called from the check boxes of lines 257-258 and 275-276
toggleScenario ==
  /\ ~showCustomBuilder
  /\ \E scenarioId \in AllScenarioIds :
       selectedScenarios' =
         IF \E k \in 1..Len(selectedScenarios) : selectedScenarios[k] = scenarioId
           THEN SelectSeq(selectedScenarios, LAMBDA id : id # scenarioId)
           ELSE Append(selectedScenarios, scenarioId)
  /\ UNCHANGED <<customScenarios, showCustomBuilder, editingScenario>>
  /\ UNCHANGED <<recoveryVars, retryVars, pathVars, graphVars, evalVars, cellVars, robotVars, formatVars>>

\* lines 238-241: the button that opens the builder for a new scenario
OpenBuilder ==
  /\ ~showCustomBuilder
  /\ editingScenario' = <<>>
  /\ showCustomBuilder' = TRUE
  /\ UNCHANGED <<selectedScenarios, customScenarios>>
  /\ UNCHANGED <<recoveryVars, retryVars, pathVars, graphVars, evalVars, cellVars, robotVars, formatVars>>

\* lines 288-292: the Edit button of a custom scenario
EditCustom ==
  /\ ~showCustomBuilder
  /\ \E saved \in CustomIdSet : editingScenario' = <<saved>>
  /\ showCustomBuilder' = TRUE
  /\ UNCHANGED <<selectedScenarios, customScenarios>>
  /\ UNCHANGED <<recoveryVars, retryVars, pathVars, graphVars, evalVars, cellVars, robotVars, formatVars>>

\* lines 299-305: the Delete button of a custom scenario, confirmed
DeleteCustom ==
  /\ ~showCustomBuilder
  /\ \E saved \in CustomIdSet :
       /\ customScenarios' = SelectSeq(customScenarios, LAMBDA s : s # saved)
       /\ selectedScenarios' = SelectSeq(selectedScenarios, LAMBDA id : id # saved)
  /\ UNCHANGED <<showCustomBuilder, editingScenario>>
  /\ UNCHANGED <<recoveryVars, retryVars, pathVars, graphVars, evalVars, cellVars, robotVars, formatVars>>

\* lines 529-539 behind handleSave (lines 705-711): the builder saved with the
\* id of the form, which the field of lines 779-786 lets the user change
onSave ==
  /\ showCustomBuilder
  /\ \E saved \in CustomIds :
       customScenarios' =
         IF editingScenario # <<>>
           THEN [k \in 1..Len(customScenarios) |->
                   IF customScenarios[k] = editingScenario[1]
                     THEN saved
                     ELSE customScenarios[k]]
           ELSE Append(customScenarios, saved)
  /\ Len(customScenarios') <= MaxCustomScenarios
  /\ showCustomBuilder' = FALSE
  /\ editingScenario' = <<>>
  /\ UNCHANGED selectedScenarios
  /\ UNCHANGED <<recoveryVars, retryVars, pathVars, graphVars, evalVars, cellVars, robotVars, formatVars>>

\* lines 540-543
onCancel ==
  /\ showCustomBuilder
  /\ showCustomBuilder' = FALSE
  /\ editingScenario' = <<>>
  /\ UNCHANGED <<selectedScenarios, customScenarios>>
  /\ UNCHANGED <<recoveryVars, retryVars, pathVars, graphVars, evalVars, cellVars, robotVars, formatVars>>

NextRunner ==
  \/ toggleScenario
  \/ OpenBuilder
  \/ EditCustom
  \/ DeleteCustom
  \/ onSave
  \/ onCancel

SpecRunner == InitRunner /\ [][NextRunner]_vars

\* line 320: the Run button is enabled (no run going on)
RunEnabled == Len(selectedScenarios) # 0

\* C30: every id in selectedScenarios is the id of a default or a custom
\* scenario, so the Run button is never enabled for a selection that matches
\* no scenario.
C30_SelectionConsistent ==
  /\ \A k \in 1..Len(selectedScenarios) : selectedScenarios[k] \in AllScenarioIds
  /\ RunEnabled => \E k \in 1..Len(selectedScenarios) : selectedScenarios[k] \in AllScenarioIds
====
